---- MODULE Spec2Model ----
(***************************************************************************)
(* The durable execution core of the email swarm: the job queue            *)
(* (swarm_langgraph/queue.py, Postgres and in-memory), the worker          *)
(* (swarm_langgraph/worker.py) driving the supervisor's run_work_order,    *)
(* the stale-claim reaper, and the publish queue with its dispatcher        *)
(* (swarm_publish_dispatcher.py).                                           *)
(*                                                                         *)
(* Time is in seconds.  Each SQL statement is one atomic step; mark_retry  *)
(* of the Postgres queue issues two statements (select, then update) and   *)
(* is two steps.                                                            *)
(***************************************************************************)
EXTENDS Integers, Sequences, FiniteSets, TLC

VARIABLES
    backend,        \* "postgres" (PostgresSwarmJobQueue) or "memory" (InMemorySwarmJobQueue)
    now,            \* the clock, seconds
    jobs,           \* swarm_jobs rows / InMemorySwarmJobQueue.jobs, in insertion order
    pc,             \* per worker: position inside SwarmWorker.process_once
    held,           \* per worker: the SwarmJob that claim_next returned
    attempt_read,   \* per worker: attempt read by the select of mark_retry (Postgres)
    recovered,      \* return value of the last recover_stale_running call
    publish_queue,  \* publish_queue rows, in insertion order
    dpc,            \* per dispatcher: position inside SwarmPublishDispatcher.process_once
    drow,           \* per dispatcher: the PublishQueueRow that claim_next returned
    delivered,      \* per publish_queue row: number of _post calls that returned ok
    posted,         \* per publish_queue row: number of _post calls
    auto_send_enabled,  \* SwarmPublishDispatcher.auto_send_enabled
    runs,           \* workflow_runs rows / InMemoryRunStore.runs, in insertion order
    events,         \* workflow_events rows / InMemoryRunStore.events, in insertion order
    exec,           \* the run_work_order call in progress
    agent,          \* a call of policy_agent and publish_agent: arguments and results
    log,            \* the actionable log file: its rows and its mtime
    ingest,         \* ActionableSwarmIngestor: the state file and the pass in progress
    reviews,        \* review_actions_service: the publish file and the handler threads
    memory,         \* precedent_memory: the precedent file and the last lookup
    sender,         \* publish_sender: the publish file, the state file, the webhook calls
    kept            \* the dict an earlier run_work_order call returned to its caller

qvars == <<backend, now, jobs, pc, held, attempt_read, recovered>>
dvars == <<dpc, drow, delivered, posted, auto_send_enabled>>
pvars == <<runs, events, exec, agent>>
xvars == <<log, ingest, reviews, memory, sender, kept>>
vars == <<backend, now, jobs, pc, held, attempt_read, recovered,
          publish_queue, dpc, drow, delivered, posted, auto_send_enabled,
          runs, events, exec, agent, log, ingest, reviews, memory,
          sender, kept>>

----------------------------------------------------------------------------
(* Bounds of the model *)

Workers == {"w1", "w2"}
\* the in-memory queue lives inside one runner process, which has one worker
\* (swarm_worker_runner.py, lines 44 and 60)
MemWorkers == {"w1"}
WorkOrders == {"wo1", "wo2"}
\* the work orders of the specifications that interleave every operation
OneOrder == {"wo1"}
Dispatchers == {"d1", "d2"}
Backends == {"postgres", "memory"}

\* most jobs the queue holds
MaxJobs == 2
\* the clock advances second by second up to MaxTime; beyond, it jumps to the
\* next instant at which a job becomes claimable or stale
MaxTime == 1
\* most rows the publish queue holds
MaxPublish == 2
\* the stale_after_seconds the reaper is called with, besides 0
StaleAfter == 1

----------------------------------------------------------------------------
(* Program constants *)

\* SQL null / Python None for a timestamp
NULL == -1
\* SwarmWorker.max_attempts
MaxAttempts == 3
\* SwarmPublishDispatcher.max_attempts as the test's dispatcher sets it
DispatchMaxAttempts == 3
\* the backoff ladder of _next_backoff, seconds
BackoffFirst == 30
BackoffSecond == 120
BackoffLater == 600
NoText == "null"

Max(a, b) == IF a >= b THEN a ELSE b
Min(a, b) == IF a <= b THEN a ELSE b

_next_backoff(attempt) ==
    IF attempt <= 1 THEN BackoffFirst
    ELSE IF attempt = 2 THEN BackoffSecond
    ELSE BackoffLater

JobIds == 1..Len(jobs)

\* SwarmJob / a swarm_jobs row: the columns the queue's operations read.
\* (worker_id and last_error are written and never read; created_at orders
\* rows as they were inserted, which is the order of the sequence jobs.)
\* The in-memory queue has no available_at: it stays 0 there.
NewJob(wo) ==
    [work_order_id |-> wo, status |-> "queued", attempt |-> 0,
     available_at |-> IF backend = "postgres" THEN now ELSE 0,
     locked_at |-> NULL]

NoJob == [job_id |-> 0, attempt |-> 0]

----------------------------------------------------------------------------
(* enqueue *)

HasJob(wo) == \E i \in JobIds : jobs[i].work_order_id = wo

\* PostgresSwarmJobQueue.enqueue: insert ... on conflict (work_order_id) do nothing
PgEnqueue(wo) ==
    IF HasJob(wo) THEN jobs ELSE Append(jobs, NewJob(wo))

\* InMemorySwarmJobQueue.enqueue: append
MemEnqueue(wo) == Append(jobs, NewJob(wo))

\* one enqueue call (from ingest_once, or from any caller of the queue)
Enqueue(wo) ==
    /\ \/ backend = "postgres" /\ HasJob(wo)
       \/ Len(jobs) < MaxJobs
    /\ jobs' = IF backend = "postgres" THEN PgEnqueue(wo) ELSE MemEnqueue(wo)
    /\ UNCHANGED <<backend, now, pc, held, attempt_read, recovered,
                   publish_queue, dvars, pvars, xvars>>

----------------------------------------------------------------------------
(* claim_next *)

\* Postgres: where status = 'queued' and available_at <= now()
PgEligible(i) == jobs[i].status = "queued" /\ jobs[i].available_at <= now

\* Postgres: order by available_at asc, created_at asc ... limit 1
PgBefore(i, k) ==
    \/ jobs[i].available_at < jobs[k].available_at
    \/ /\ jobs[i].available_at = jobs[k].available_at
       /\ i <= k

PgClaimCandidates ==
    {i \in JobIds : PgEligible(i) /\ \A k \in JobIds : PgEligible(k) => PgBefore(i, k)}

\* in-memory: the first job of the list whose status is queued
MemClaimCandidates ==
    {i \in JobIds : jobs[i].status = "queued"
                    /\ \A k \in 1..(i - 1) : jobs[k].status # "queued"}

ClaimCandidates ==
    IF backend = "postgres" THEN PgClaimCandidates ELSE MemClaimCandidates

\* a claim that counts the attempt and takes the lock but leaves the job queued
ClaimedStillQueued(j) ==
    [j EXCEPT !.attempt = j.attempt + 1, !.locked_at = now]

\* the row after the update of claim_next
Claimed(j) ==
    [j EXCEPT !.status = "running", !.attempt = j.attempt + 1, !.locked_at = now]

\* process_once, line 27: claim_next returns a job
ClaimNext(w) ==
    /\ pc[w] = "idle"
    /\ backend = "memory" => w \in MemWorkers
    /\ \E i \in ClaimCandidates :
        /\ jobs' = [jobs EXCEPT ![i] = Claimed(jobs[i])]
        /\ held' = [held EXCEPT ![w] =
                       [job_id |-> i, attempt |-> jobs[i].attempt + 1]]
    /\ pc' = [pc EXCEPT ![w] = "claimed"]
    /\ UNCHANGED <<backend, now, attempt_read, recovered, publish_queue, dvars, pvars, xvars>>

\* process_once, lines 28-29: claim_next returns None
ClaimEmpty(w) ==
    /\ pc[w] = "idle"
    /\ backend = "memory" => w \in MemWorkers
    /\ ClaimCandidates = {}
    /\ UNCHANGED vars

----------------------------------------------------------------------------
(* supervisor.run_work_order, as far as the queues see it *)

\* the values of "send" in a publish_queue payload: the key missing, the
\* booleans, strings and None
SendFlags == {"absent", "True", "False", "'yes'", "'no'", "None"}

\* publish_agent writes "send": AUTO_SEND_ENABLED, a bool
PublishAgentFlags == {"True", "False"}

\* no run_work_order call in progress
NoExec == [at |-> "idle"]

\* no call of the agents yet
NoAgent == [at |-> "idle"]

\* an empty actionable log, never written
NoLog == [rows |-> <<>>, mtime |-> 0, gen |-> 0, next |-> 1]

\* _load_state without a state file: {"offset": 0, "mtime_ns": 0,
\* "start_sig": ""}; no pass in progress
NoIngest ==
    [pc |-> "idle", offset |-> 0, mtime_ns |-> 0,
     start_sig |-> [known |-> FALSE, sample |-> <<>>],
     seek |-> 0, stat_mtime_ns |-> 0, stat_sig |-> [known |-> FALSE, sample |-> <<>>],
     new_offset |-> 0,
     stats |-> [rows_read |-> 0, rows_enqueued |-> 0, rows_skipped |-> 0]]

\* no publish payload written, no review request in progress
NoReview ==
    [publish |-> <<>>, requests |-> 0,
     at |-> [h \in {"h1", "h2"} |-> "idle"],
     work_order_id |-> [h \in {"h1", "h2"} |-> ""]]

\* no lookup_precedent call has returned since the last write
NoMatch ==
    [found |-> FALSE, decision |-> "", count |-> 0, key |-> "", sample_size |-> 0]

\* no precedent file, no lookup made
NoMemory == [rows |-> <<>>, match |-> NoMatch]

\* no publish file, no state file, no webhook call made
NoSender == [file |-> <<>>, sent_ids |-> {}, calls |-> {}, count |-> 0]

\* the caller holds no returned dict
NoKept == [at |-> "none"]

\* a publish_queue row; send is the payload's "send" (publish_agent sets it
\* from AUTO_SEND_ENABLED of the process that ran the pipeline)
NewPublishRow(wo, send) ==
    [work_order_id |-> wo, dispatch_status |-> "queued", dispatch_attempts |-> 0,
     send |-> send, last_error |-> NoText]

NoRow == [row_id |-> 0, attempt |-> 0]

\* PostgresRunStore.persist_artifact for the publish stage: a plain insert
PersistPublish(wo, send) == Append(publish_queue, NewPublishRow(wo, send))

\* run_work_order up to and including _persist_ctx_state, the pipeline
\* halting at policy for human review: ctx.state has no "publish"
RunHalt(w) ==
    /\ pc[w] = "claimed"
    /\ pc' = [pc EXCEPT ![w] = "persisted"]
    /\ UNCHANGED <<backend, now, jobs, held, attempt_read, recovered,
                   publish_queue, dvars, pvars, xvars>>

\* run_work_order up to and including _persist_ctx_state, the pipeline
\* approving the draft: ctx.state["publish"] goes to publish_queue
RunPublish(w) ==
    /\ pc[w] = "claimed"
    /\ backend = "postgres"
    /\ Len(publish_queue) < MaxPublish
    /\ \E send \in PublishAgentFlags :
        publish_queue' = PersistPublish(jobs[held[w].job_id].work_order_id, send)
    /\ delivered' = Append(delivered, 0)
    /\ posted' = Append(posted, 0)
    /\ pc' = [pc EXCEPT ![w] = "persisted"]
    /\ UNCHANGED <<backend, now, jobs, held, attempt_read, recovered,
                   dpc, drow, auto_send_enabled, pvars, xvars>>

\* run_work_order raises before anything is persisted (a stage raises, or
\* the work order has no id)
RunRaise(w) ==
    /\ pc[w] = "claimed"
    /\ pc' = [pc EXCEPT ![w] = "failed"]
    /\ UNCHANGED <<backend, now, jobs, held, attempt_read, recovered,
                   publish_queue, dvars, pvars, xvars>>

\* finish_run raises after the artifacts were persisted
FinishRaise(w) ==
    /\ pc[w] = "persisted"
    /\ pc' = [pc EXCEPT ![w] = "failed"]
    /\ UNCHANGED <<backend, now, jobs, held, attempt_read, recovered,
                   publish_queue, dvars, pvars, xvars>>

----------------------------------------------------------------------------
(* mark_done, mark_retry, mark_dead_letter *)

\* a mark_done that clears the lock and leaves the status
MarkedDoneStuck(j) == [j EXCEPT !.locked_at = NULL]

\* update swarm_jobs set status = 'done', locked_at = null where job_id = %s
MarkedDone(j) == [j EXCEPT !.status = "done", !.locked_at = NULL]

\* a mark_dead_letter that clears the lock and leaves the status
MarkedDeadLetterStuck(j) == [j EXCEPT !.locked_at = NULL]

\* update ... set status = 'dead_letter', last_error = %s, locked_at = null
MarkedDeadLetter(j) ==
    [j EXCEPT !.status = "dead_letter", !.locked_at = NULL]

\* mark_retry: attempt is what the method read from the row
MarkedRetry(j, attempt) ==
    IF attempt >= MaxAttempts
    THEN [j EXCEPT !.status = "dead_letter", !.locked_at = NULL]
    ELSE IF backend = "postgres"
    THEN [j EXCEPT !.status = "queued", !.locked_at = NULL,
                   !.available_at = now + _next_backoff(attempt)]
    ELSE [j EXCEPT !.status = "queued", !.locked_at = NULL]

\* job.attempt as the worker reads it at line 35: the row claim_next returned
\* (Postgres), or the queue's own SwarmJob object (in-memory)
JobAttempt(w) ==
    IF backend = "postgres" THEN held[w].attempt ELSE jobs[held[w].job_id].attempt

\* a worker that compares with > instead of >=
AttemptsExhaustedLate(w) == JobAttempt(w) > MaxAttempts

\* process_once, line 35: job.attempt >= self.max_attempts
AttemptsExhausted(w) == JobAttempt(w) >= MaxAttempts

Release(w) ==
    /\ pc' = [pc EXCEPT ![w] = "idle"]
    /\ held' = [held EXCEPT ![w] = NoJob]
    /\ attempt_read' = [attempt_read EXCEPT ![w] = 0]

\* process_once, lines 32-33
MarkDone(w) ==
    /\ pc[w] = "persisted"
    /\ jobs' = [jobs EXCEPT ![held[w].job_id] = MarkedDone(@)]
    /\ Release(w)
    /\ UNCHANGED <<backend, now, recovered, publish_queue, dvars, pvars, xvars>>

\* process_once, lines 35-37
MarkDeadLetter(w) ==
    /\ pc[w] = "failed"
    /\ AttemptsExhausted(w)
    /\ jobs' = [jobs EXCEPT ![held[w].job_id] = MarkedDeadLetter(@)]
    /\ Release(w)
    /\ UNCHANGED <<backend, now, recovered, publish_queue, dvars, pvars, xvars>>

\* process_once, line 38, Postgres: select attempt from swarm_jobs where job_id = %s
MarkRetryRead(w) ==
    /\ pc[w] = "failed"
    /\ backend = "postgres"
    /\ ~AttemptsExhausted(w)
    /\ attempt_read' = [attempt_read EXCEPT ![w] = jobs[held[w].job_id].attempt]
    /\ pc' = [pc EXCEPT ![w] = "retry_read"]
    /\ UNCHANGED <<backend, now, jobs, held, recovered, publish_queue, dvars, pvars, xvars>>

\* process_once, lines 38-39, Postgres: the update of mark_retry
MarkRetryWrite(w) ==
    /\ pc[w] = "retry_read"
    /\ jobs' = [jobs EXCEPT ![held[w].job_id] = MarkedRetry(@, attempt_read[w])]
    /\ Release(w)
    /\ UNCHANGED <<backend, now, recovered, publish_queue, dvars, pvars, xvars>>

\* process_once, lines 38-39, in-memory
MarkRetryMem(w) ==
    /\ pc[w] = "failed"
    /\ backend = "memory"
    /\ ~AttemptsExhausted(w)
    /\ jobs' = [jobs EXCEPT ![held[w].job_id] = MarkedRetry(@, @.attempt)]
    /\ Release(w)
    /\ UNCHANGED <<backend, now, recovered, publish_queue, dvars, pvars, xvars>>

\* the worker process dies between claim_next and its mark_* call
Crash(w) ==
    /\ pc[w] # "idle"
    /\ Release(w)
    /\ UNCHANGED <<backend, now, jobs, recovered, publish_queue, dvars, pvars, xvars>>

----------------------------------------------------------------------------
(* recover_stale_running *)

\* the arguments the reaper is called with
StaleChoices == {0, StaleAfter}
LimitChoices == {0, 1, MaxJobs}

\* a reaper that takes every running job, whatever its lock age
IsStaleAnyAge(i, stale_after) ==
    /\ jobs[i].status = "running"
    /\ jobs[i].locked_at # NULL

\* where status = 'running' and locked_at is not null
\*   and locked_at <= now() - make_interval(secs => max(1, stale_after_seconds))
IsStale(i, stale_after) ==
    /\ jobs[i].status = "running"
    /\ jobs[i].locked_at # NULL
    /\ jobs[i].locked_at <= now - Max(1, stale_after)

StaleJobs(stale_after) == {i \in JobIds : IsStale(i, stale_after)}

\* Postgres: order by locked_at asc limit max(1, limit)
PgRecoverSets(stale_after, limit) ==
    LET candidate == StaleJobs(stale_after)
        n == Min(Max(1, limit), Cardinality(candidate))
    IN {S \in SUBSET candidate :
           /\ Cardinality(S) = n
           /\ \A a \in S : \A b \in candidate \ S :
                 jobs[a].locked_at <= jobs[b].locked_at}

\* in-memory: list order, the loop breaks once recovered >= limit
MemRecoverSets(stale_after, limit) ==
    LET stale == StaleJobs(stale_after)
    IN {{i \in stale : Cardinality({k \in stale : k < i}) < limit}}

RecoverSets(stale_after, limit) ==
    IF backend = "postgres"
    THEN PgRecoverSets(stale_after, limit)
    ELSE MemRecoverSets(stale_after, limit)

\* a reaper that compares with > instead of >=
RecoveredStatusLate(attempt, max_attempts) ==
    IF attempt > max_attempts THEN "dead_letter" ELSE "queued"

\* status = case when c.attempt >= max_attempts then 'dead_letter' else 'queued' end
RecoveredStatus(attempt, max_attempts) ==
    IF attempt >= max_attempts THEN "dead_letter" ELSE "queued"

\* the row after the update of recover_stale_running
Recovered(j, max_attempts) ==
    IF backend = "postgres"
    THEN [j EXCEPT !.status = RecoveredStatus(j.attempt, max_attempts),
                   !.locked_at = NULL, !.available_at = now]
    ELSE [j EXCEPT !.status = RecoveredStatus(j.attempt, max_attempts),
                   !.locked_at = NULL]

\* SwarmWorker.recover_stale_once: max_attempts is the worker's
RecoverStale(stale_after, limit) ==
    /\ UNCHANGED <<backend, now, pc, held, attempt_read, publish_queue, dvars, pvars, xvars>>
    /\ \E S \in RecoverSets(stale_after, limit) :
        /\ recovered' = Cardinality(S)
        /\ jobs' = [i \in JobIds |->
                       IF i \in S THEN Recovered(jobs[i], MaxAttempts) ELSE jobs[i]]

----------------------------------------------------------------------------
(* the clock *)

\* the instants after now at which a queued job becomes claimable or a running
\* job becomes stale, and the next second while now < MaxTime
Instants ==
    {t \in {jobs[i].available_at : i \in {k \in JobIds : jobs[k].status = "queued"}}
           \cup {jobs[i].locked_at + Max(1, s) :
                    i \in {k \in JobIds : jobs[k].status = "running"
                                          /\ jobs[k].locked_at # NULL},
                    s \in StaleChoices}
           \cup (IF now < MaxTime THEN {now + 1} ELSE {}) :
        t > now}

Tick ==
    /\ \E t \in Instants : now' = t
    /\ UNCHANGED <<backend, jobs, pc, held, attempt_read, recovered,
                   publish_queue, dvars, pvars, xvars>>

----------------------------------------------------------------------------
(* SwarmPublishDispatcher *)

RowIds == 1..Len(publish_queue)

\* a run of the pipeline leaves a publish row (persist_artifact)
PublishArrives(wo) ==
    /\ Len(publish_queue) < MaxPublish
    /\ \E send \in SendFlags : publish_queue' = PersistPublish(wo, send)
    /\ delivered' = Append(delivered, 0)
    /\ posted' = Append(posted, 0)
    /\ UNCHANGED <<qvars, dpc, drow, auto_send_enabled, pvars, xvars>>

\* where dispatch_status = 'queued' order by created_at asc ... limit 1
DispatchCandidates ==
    {r \in RowIds : publish_queue[r].dispatch_status = "queued"
                    /\ \A k \in 1..(r - 1) : publish_queue[k].dispatch_status # "queued"}

\* a claim that counts the attempt but leaves the row queued
DispatchClaimedStillQueued(row) ==
    [row EXCEPT !.dispatch_attempts = row.dispatch_attempts + 1]

\* the row after the update of claim_next
DispatchClaimed(row) ==
    [row EXCEPT !.dispatch_status = "running",
                !.dispatch_attempts = row.dispatch_attempts + 1]

\* process_once, line 131: claim_next returns a row
DispatchClaim(d) ==
    /\ dpc[d] = "idle"
    /\ \E r \in DispatchCandidates :
        /\ publish_queue' = [publish_queue EXCEPT ![r] = DispatchClaimed(@)]
        /\ drow' = [drow EXCEPT ![d] =
                       [row_id |-> r,
                        attempt |-> publish_queue[r].dispatch_attempts + 1]]
    /\ dpc' = [dpc EXCEPT ![d] = "claimed"]
    /\ UNCHANGED <<qvars, delivered, posted, auto_send_enabled, pvars, xvars>>

\* process_once, lines 132-133: claim_next returns None
DispatchEmpty(d) ==
    /\ dpc[d] = "idle"
    /\ DispatchCandidates = {}
    /\ UNCHANGED vars

\* a dispatcher that sends whatever the payload says
_should_send_always(row) == TRUE

\* _should_send(row.payload): payload.get("send", True); a bool as it is, a
\* string by its text, anything else by bool(raw)
_should_send(row) ==
    IF row.send = "absent" THEN TRUE
    ELSE IF row.send \in {"True", "False"} THEN row.send = "True"
    ELSE IF row.send \in {"'yes'", "'no'"} THEN row.send = "'yes'"
    ELSE FALSE

\* mark_dispatched(row_id, note)
MarkedDispatched(row, note) ==
    [row EXCEPT !.dispatch_status = "dispatched", !.last_error = note]

\* a ceiling that lets one more attempt through
MarkedRetryOrDeadLetterLate(row, attempt) ==
    [row EXCEPT !.dispatch_status =
                    IF attempt > DispatchMaxAttempts THEN "dead_letter" ELSE "queued",
                !.last_error = "error"]

\* mark_retry_or_dead_letter(row_id, attempt, error)
MarkedRetryOrDeadLetter(row, attempt) ==
    [row EXCEPT !.dispatch_status =
                    IF attempt >= DispatchMaxAttempts THEN "dead_letter" ELSE "queued",
                !.last_error = "error"]

DispatchRelease(d) ==
    /\ dpc' = [dpc EXCEPT ![d] = "idle"]
    /\ drow' = [drow EXCEPT ![d] = NoRow]

\* process_once, lines 135-146: the row is not to be sent
DispatchSkip(d) ==
    /\ dpc[d] = "claimed"
    /\ LET r == drow[d].row_id
           note == IF ~_should_send(publish_queue[r]) THEN "send_false"
                   ELSE "auto_send_disabled"
       IN /\ ~_should_send(publish_queue[r]) \/ ~auto_send_enabled
          /\ publish_queue' = [publish_queue EXCEPT ![r] = MarkedDispatched(@, note)]
    /\ DispatchRelease(d)
    /\ UNCHANGED <<qvars, delivered, posted, auto_send_enabled, pvars, xvars>>

\* process_once, line 148: _post returns (ok, err)
DispatchPost(d) ==
    /\ dpc[d] = "claimed"
    /\ _should_send(publish_queue[drow[d].row_id])
    /\ auto_send_enabled
    /\ \E ok \in BOOLEAN :
        IF ok
        THEN /\ delivered' = [delivered EXCEPT ![drow[d].row_id] = @ + 1]
             /\ dpc' = [dpc EXCEPT ![d] = "posted"]
        ELSE /\ delivered' = delivered
             /\ dpc' = [dpc EXCEPT ![d] = "post_failed"]
    /\ posted' = [posted EXCEPT ![drow[d].row_id] = @ + 1]
    /\ UNCHANGED <<qvars, publish_queue, drow, auto_send_enabled, pvars, xvars>>

\* process_once, lines 149-151
DispatchMarkDispatched(d) ==
    /\ dpc[d] = "posted"
    /\ publish_queue' = [publish_queue EXCEPT ![drow[d].row_id] =
                             MarkedDispatched(@, NoText)]
    /\ DispatchRelease(d)
    /\ UNCHANGED <<qvars, delivered, posted, auto_send_enabled, pvars, xvars>>

\* process_once, lines 153-158
DispatchMarkRetry(d) ==
    /\ dpc[d] = "post_failed"
    /\ publish_queue' = [publish_queue EXCEPT ![drow[d].row_id] =
                             MarkedRetryOrDeadLetter(@, drow[d].attempt)]
    /\ DispatchRelease(d)
    /\ UNCHANGED <<qvars, delivered, posted, auto_send_enabled, pvars, xvars>>

\* the dispatcher process dies between claim_next and its mark_* call
DispatchCrash(d) ==
    /\ dpc[d] # "idle"
    /\ DispatchRelease(d)
    /\ UNCHANGED <<qvars, publish_queue, delivered, posted, auto_send_enabled, pvars, xvars>>

----------------------------------------------------------------------------
Init ==
    /\ backend \in Backends
    /\ now = 0
    /\ jobs = <<>>
    /\ pc = [w \in Workers |-> "idle"]
    /\ held = [w \in Workers |-> NoJob]
    /\ attempt_read = [w \in Workers |-> 0]
    /\ recovered = 0
    /\ publish_queue = <<>>
    /\ dpc = [d \in Dispatchers |-> "idle"]
    /\ drow = [d \in Dispatchers |-> NoRow]
    /\ delivered = <<>>
    /\ posted = <<>>
    /\ auto_send_enabled = FALSE
    /\ runs = <<>>
    /\ events = <<>>
    /\ exec = NoExec
    /\ agent = NoAgent
    /\ log = NoLog
    /\ ingest = NoIngest
    /\ reviews = NoReview
    /\ memory = NoMemory
    /\ sender = NoSender
    /\ kept = NoKept

WorkerStep(w) ==
    \/ ClaimNext(w)
    \/ ClaimEmpty(w)
    \/ RunHalt(w)
    \/ RunPublish(w)
    \/ RunRaise(w)
    \/ FinishRaise(w)
    \/ MarkDone(w)
    \/ MarkDeadLetter(w)
    \/ MarkRetryRead(w)
    \/ MarkRetryWrite(w)
    \/ MarkRetryMem(w)

Next ==
    \/ \E wo \in OneOrder : Enqueue(wo)
    \/ \E w \in Workers : WorkerStep(w)
    \/ \E w \in Workers : Crash(w)
    \/ \E s \in StaleChoices, l \in LimitChoices : RecoverStale(s, l)
    \/ Tick

Spec == Init /\ [][Next]_vars

\* workers and the queue with two work orders, no process dying and no reaper
WorkNext ==
    \/ \E wo \in WorkOrders : Enqueue(wo)
    \/ \E w \in Workers :
        \/ ClaimNext(w)
        \/ ClaimEmpty(w)
        \/ RunHalt(w)
        \/ RunRaise(w)
        \/ FinishRaise(w)
        \/ MarkDone(w)
        \/ MarkDeadLetter(w)
        \/ MarkRetryRead(w)
        \/ MarkRetryWrite(w)
        \/ MarkRetryMem(w)
    \/ Tick

WorkSpec == Init /\ [][WorkNext]_vars

\* a pipeline that raises on every execution (test_worker_retries_and_dead_letters)
FailNext ==
    \/ \E wo \in WorkOrders : Enqueue(wo)
    \/ \E w \in Workers :
        \/ ClaimNext(w)
        \/ ClaimEmpty(w)
        \/ RunRaise(w)
        \/ MarkDeadLetter(w)
        \/ MarkRetryRead(w)
        \/ MarkRetryWrite(w)
        \/ MarkRetryMem(w)
    \/ Tick

FailSpec == Init /\ [][FailNext]_vars

\* jobs claimed by a worker that then dies, and the reaper
ReapNext ==
    \/ \E wo \in WorkOrders : Enqueue(wo)
    \/ \E w \in MemWorkers :
        \/ ClaimNext(w)
        \/ Crash(w)
    \/ \E s \in StaleChoices, l \in LimitChoices : RecoverStale(s, l)
    \/ Tick

ReapSpec == Init /\ [][ReapNext]_vars

\* the publish queue and its dispatchers, on the Postgres store
DispatchInit ==
    /\ backend = "postgres"
    /\ now = 0
    /\ jobs = <<>>
    /\ pc = [w \in Workers |-> "idle"]
    /\ held = [w \in Workers |-> NoJob]
    /\ attempt_read = [w \in Workers |-> 0]
    /\ recovered = 0
    /\ publish_queue = <<>>
    /\ dpc = [d \in Dispatchers |-> "idle"]
    /\ drow = [d \in Dispatchers |-> NoRow]
    /\ delivered = <<>>
    /\ posted = <<>>
    /\ auto_send_enabled \in BOOLEAN
    /\ runs = <<>>
    /\ events = <<>>
    /\ exec = NoExec
    /\ agent = NoAgent
    /\ log = NoLog
    /\ ingest = NoIngest
    /\ reviews = NoReview
    /\ memory = NoMemory
    /\ sender = NoSender
    /\ kept = NoKept

DispatchStep(d) ==
    \/ DispatchClaim(d)
    \/ DispatchEmpty(d)
    \/ DispatchSkip(d)
    \/ DispatchPost(d)
    \/ DispatchMarkDispatched(d)
    \/ DispatchMarkRetry(d)

DispatchNext ==
    \/ \E wo \in WorkOrders : PublishArrives(wo)
    \/ \E d \in Dispatchers : DispatchStep(d)
    \/ \E d \in Dispatchers : DispatchCrash(d)

DispatchSpec == DispatchInit /\ [][DispatchNext]_vars
----------------------------------------------------------------------------
(* Properties of the job queue *)

\* C1: enqueue is idempotent per work_order_id on both queue implementations:
\* the queue never holds two jobs for the same work_order_id.
C1_OneJobPerWorkOrder ==
    \A i \in JobIds : \A k \in JobIds :
        jobs[i].work_order_id = jobs[k].work_order_id => i = k

Eligible(i) ==
    IF backend = "postgres" THEN PgEligible(i) ELSE jobs[i].status = "queued"

\* C2: concurrent claim_next calls partition the eligible jobs: a claim takes
\* an eligible job that no other worker holds, leaves it running with attempt
\* incremented exactly once, and claim_next has a job to return whenever an
\* eligible job remains.
C2_ClaimPartition ==
    [][/\ \A w \in Workers :
            ClaimNext(w) =>
                LET i == held'[w].job_id
                IN /\ Eligible(i)
                   /\ jobs'[i].status = "running"
                   /\ jobs'[i].attempt = jobs[i].attempt + 1
                   /\ held'[w].attempt = jobs'[i].attempt
                   /\ \A k \in JobIds \ {i} : jobs'[k] = jobs[k]
                   /\ \A v \in Workers \ {w} :
                          pc[v] # "idle" => held[v].job_id # i
       /\ (\E i \in JobIds : Eligible(i)) => ClaimCandidates # {}]_vars

\* two workers hold two different jobs, each claimed once
C2_Witness ==
    /\ backend = "postgres"
    /\ pc["w1"] = "claimed"
    /\ pc["w2"] = "claimed"
    /\ held["w1"].job_id # held["w2"].job_id
    /\ \A w \in Workers : jobs[held[w].job_id].attempt = 1

\* C3: no two workers hold the same job at the same time, stale recovery of a
\* slow worker's job included.
C3_OneHolder ==
    \A w \in Workers : \A v \in Workers \ {w} :
        (pc[w] # "idle" /\ pc[v] # "idle") => held[w].job_id # held[v].job_id

\* the write of a mark_done, mark_retry or mark_dead_letter call by worker w
MarkStep(w) ==
    \/ MarkDone(w)
    \/ MarkDeadLetter(w)
    \/ MarkRetryWrite(w)
    \/ MarkRetryMem(w)

\* worker w's claim is the job's current claim
OwnsClaim(w) ==
    /\ jobs[held[w].job_id].status = "running"
    /\ jobs[held[w].job_id].attempt = held[w].attempt

\* C4: a mark_done, mark_retry or mark_dead_letter by a worker whose job was
\* recovered, or recovered and claimed again, changes nothing.
C4_LateMarkIsNoOp ==
    [][\A w \in Workers : (MarkStep(w) /\ ~OwnsClaim(w)) => jobs' = jobs]_vars

\* C5: publish_queue holds at most one row per work_order_id, also when the
\* job is executed again.
C5_OnePublishRowPerWorkOrder ==
    \A r \in RowIds : \A q \in RowIds :
        publish_queue[r].work_order_id = publish_queue[q].work_order_id => r = q

\* process_once without the publish queue: the job queue's side of a run
QueueStep(w) ==
    \/ ClaimNext(w)
    \/ ClaimEmpty(w)
    \/ RunHalt(w)
    \/ RunRaise(w)
    \/ MarkDone(w)
    \/ MarkDeadLetter(w)
    \/ MarkRetryRead(w)
    \/ MarkRetryWrite(w)
    \/ MarkRetryMem(w)

\* one work order, workers that may die, the reaper and the clock
QueueNext ==
    \/ \E wo \in OneOrder : Enqueue(wo)
    \/ \E w \in Workers : QueueStep(w)
    \/ \E w \in Workers : Crash(w)
    \/ \E s \in StaleChoices, l \in LimitChoices : RecoverStale(s, l)
    \/ Tick

QueueSpec == Init /\ [][QueueNext]_vars

\* some worker keeps calling process_once, the reaper keeps calling
\* recover_stale_running with the runner's arguments, and time passes
Fairness ==
    /\ \A w \in Workers : WF_vars(QueueStep(w))
    /\ WF_vars(RecoverStale(StaleAfter, MaxJobs))
    /\ WF_vars(Tick)

LiveSpec == Init /\ [][QueueNext]_vars /\ Fairness

Settled(i) == i \in JobIds /\ jobs[i].status \in {"done", "dead_letter"}

\* C6: with workers that keep calling process_once and a reaper that keeps
\* calling recover_stale_running, every enqueued job eventually reaches done or
\* dead_letter, worker crashes between claim_next and mark_* included.
C6_EveryJobSettles ==
    \A i \in 1..MaxJobs : (i \in JobIds) ~> Settled(i)

\* a job was left running by a crashed worker, recovered, and then finished
C6_Witness ==
    /\ recovered >= 1
    /\ \E i \in JobIds : jobs[i].status = "done" /\ jobs[i].attempt >= 2
    /\ \A w \in Workers : pc[w] = "idle"

\* C7: with max_attempts = N and a run that raises every time, each of the
\* first N-1 failures is reported retry and leaves the job queued, the N-th
\* is reported dead_letter and leaves the job dead_letter, and the job is
\* claimed N times and never again.
C7_RetryThenDeadLetter ==
    [][\A w \in Workers :
          LET i == held[w].job_id
          IN /\ (MarkRetryWrite(w) \/ MarkRetryMem(w)) =>
                    /\ jobs[i].attempt < MaxAttempts
                    /\ jobs'[i].status = "queued"
                    /\ jobs'[i].attempt = jobs[i].attempt
             /\ MarkDeadLetter(w) =>
                    /\ jobs[i].attempt = MaxAttempts
                    /\ jobs'[i].status = "dead_letter"
             /\ ClaimNext(w) =>
                    /\ held'[w].attempt <= MaxAttempts
                    /\ jobs[held'[w].job_id].status = "queued"]_vars

\* a job was claimed MaxAttempts times and is dead_letter
C7_Witness ==
    \E i \in JobIds :
        /\ jobs[i].status = "dead_letter"
        /\ jobs[i].attempt = MaxAttempts
        /\ \A w \in Workers : held[w].job_id # i

\* the jobs a recover_stale_running step changed
Moved == {i \in JobIds : jobs'[i] # jobs[i]}

\* what recover_stale_running does to the jobs it moves
MovedAsRecovered(i) ==
    /\ jobs[i].status = "running"
    /\ jobs'[i].status =
           IF jobs[i].attempt < MaxAttempts THEN "queued" ELSE "dead_letter"
    /\ jobs'[i].locked_at = NULL
    /\ jobs'[i].attempt = jobs[i].attempt

\* the call moves the running jobs of lock age >= age, at most most of them
RecoverMoves(age, most) ==
    LET moved == Moved
        n == Cardinality(moved)
    IN /\ recovered' = n
       /\ n <= most
       /\ \A i \in moved : MovedAsRecovered(i) /\ now - jobs[i].locked_at >= age
       /\ n < most =>
              \A i \in JobIds :
                  (jobs[i].status = "running" /\ now - jobs[i].locked_at >= age)
                      => i \in moved

\* C8 as stated: recover_stale_running(stale_after, max_attempts, limit) moves
\* each running job whose lock age is at least stale_after, at most limit jobs
\* per call, to queued or dead_letter by its attempt, clears the lock, and
\* returns the number of jobs it moved.
C8_RecoverAsStated ==
    [][\A s \in StaleChoices : \A l \in LimitChoices :
          RecoverStale(s, l) => RecoverMoves(s, l)]_vars

\* the limit the call works with
EffectiveLimit(limit) == IF backend = "postgres" THEN Max(1, limit) ELSE limit

\* C8, amended: the threshold is max(1, stale_after) seconds, and the Postgres
\* queue moves at most max(1, limit) jobs per call.
C8_RecoverClamped ==
    [][\A s \in StaleChoices : \A l \in LimitChoices :
          RecoverStale(s, l) => RecoverMoves(Max(1, s), EffectiveLimit(l))]_vars

\* one call recovered one of two stale jobs: the limit held the other back
C8_Witness ==
    /\ recovered = 1
    /\ \E i \in JobIds : \E k \in JobIds \ {i} :
          /\ jobs[i].status = "queued"
          /\ jobs[i].attempt >= 1
          /\ IsStale(k, StaleAfter)

\* C9: recover_stale_running leaves unchanged every job that is not running
\* and every running job whose lock age is below stale_after, also between the
\* steps of claim_next and of the workers' mark_* calls.
C9_RecoverFrame ==
    [][\A s \in StaleChoices : \A l \in LimitChoices :
          \/ \A i \in JobIds :
                 (jobs[i].status # "running" \/ now - jobs[i].locked_at < s)
                     => jobs'[i] = jobs[i]
          \/ ~RecoverStale(s, l)]_vars

\* a recovered job is running again with a fresh lock next to a finished one
C9_Witness ==
    /\ recovered >= 1
    /\ \E i \in JobIds : \E k \in JobIds :
          /\ jobs[i].status = "running"
          /\ jobs[i].locked_at = now
          /\ jobs[i].attempt >= 2
          /\ jobs[k].status \in {"done", "dead_letter"}

\* C10: each publish_queue row is delivered successfully at most once, and no
\* two dispatchers hold the same row, under any interleaving of dispatchers
\* and any pattern of delivery failures and requeues.
C10_DeliveredAtMostOnce ==
    /\ \A r \in RowIds : delivered[r] <= 1
    /\ \A d \in Dispatchers : \A e \in Dispatchers \ {d} :
          (dpc[d] # "idle" /\ dpc[e] # "idle") => drow[d].row_id # drow[e].row_id

\* a row failed once, was queued again and then delivered
C10_Witness ==
    \E r \in RowIds :
        /\ delivered[r] = 1
        /\ publish_queue[r].dispatch_attempts >= 2
        /\ publish_queue[r].dispatch_status = "dispatched"

----------------------------------------------------------------------------
\* the payloads the dispatcher is to deliver: "send" missing (the default is
\* True), True, or a string that reads as yes
FlagOn(row) == row.send \in {"absent", "True", "'yes'"}

\* C11: the delivery endpoint is called for a row only if the payload's send
\* flag is on and the auto-send switch is on; when either is off, the step of
\* process_once on the claimed row marks it dispatched with the note
\* send_false or auto_send_disabled, calls nothing and delivers nothing, and
\* the row does not go back to queued or to dead_letter.
C11_SendGate ==
    [][ /\ \A r \in RowIds :
            posted'[r] # posted[r] => FlagOn(publish_queue[r]) /\ auto_send_enabled
        /\ \A d \in Dispatchers :
            (dpc[d] = "claimed"
             /\ (~FlagOn(publish_queue[drow[d].row_id]) \/ ~auto_send_enabled))
            => LET r == drow[d].row_id
                   note == IF ~FlagOn(publish_queue[r]) THEN "send_false"
                           ELSE "auto_send_disabled"
               IN /\ posted'[r] = posted[r]
                  /\ delivered'[r] = delivered[r]
                  /\ dpc'[d] \in {"claimed", "idle"}
                  /\ publish_queue'[r] # publish_queue[r]
                     => publish_queue'[r] =
                            [publish_queue[r] EXCEPT !.dispatch_status = "dispatched",
                                                     !.last_error = note]
      ]_vars

\* one row was skipped for its flag, another for the switch, neither posted
C11_Witness ==
    \E r1, r2 \in RowIds :
        /\ publish_queue[r1].dispatch_status = "dispatched"
        /\ publish_queue[r1].last_error = "send_false"
        /\ publish_queue[r2].dispatch_status = "dispatched"
        /\ publish_queue[r2].last_error = "auto_send_disabled"
        /\ posted[r1] = 0 /\ posted[r2] = 0

\* C12: a row whose delivery fails at attempt k goes back to queued when
\* k < max_attempts and becomes dead_letter when k >= max_attempts, and the
\* delivery endpoint is called at most max_attempts times for any one row.
C12_AttemptCeiling ==
    [][ /\ \A d \in Dispatchers :
            (dpc[d] = "post_failed"
             /\ publish_queue'[drow[d].row_id] # publish_queue[drow[d].row_id])
            => LET r == drow[d].row_id
                   k == publish_queue[r].dispatch_attempts
               IN publish_queue'[r].dispatch_status =
                      IF k < DispatchMaxAttempts THEN "queued" ELSE "dead_letter"
        /\ \A r \in RowIds : posted'[r] <= DispatchMaxAttempts
      ]_vars

\* a row failed at every attempt up to the ceiling and is dead_letter
C12_Witness ==
    \E r \in RowIds :
        /\ publish_queue[r].dispatch_status = "dead_letter"
        /\ publish_queue[r].dispatch_attempts = DispatchMaxAttempts
        /\ posted[r] = DispatchMaxAttempts
        /\ delivered[r] = 0

----------------------------------------------------------------------------
\* The agents of pipeline_daemon. Confidences are in hundredths.

\* DRAFT_MIN_CONFIDENCE, default "0.65"
DRAFT_MIN_CONFIDENCE == 65

\* qa_agent: qa_pass = tone_ok and confidence >= 0.5
QaMinConfidence == 50

\* _clean_confidence(value, default=0.5) as qa_agent and policy_agent call it
DefaultConfidence == 50

Tiers == {"A", "B", "C"}

\* draft.get("confidence"): NULL for a missing or non-numeric value
RawConfidences == {NULL, 40, 60, 65, 90, 130}

\* PrecedentMatch.found and PrecedentMatch.decision of lookup_precedent
Precedents == [found : BOOLEAN, decision : {"approve", "auto_publish", "reject", "unknown"}]

\* _clean_confidence for a value that is missing or not below zero
_clean_confidence(value) ==
    IF value = NULL THEN DefaultConfidence
    ELSE IF value > 100 THEN 100
    ELSE value

\* fact_agent: fact_status
fact_agent(decision_tier) ==
    IF decision_tier = "C" THEN "needs_review" ELSE "pass"

\* qa_agent: qa_pass
qa_agent(confidence, tone_ok) ==
    tone_ok /\ _clean_confidence(confidence) >= QaMinConfidence

\* a policy that knows no precedent
policy_agent_no_precedent(decision_tier, fact_status, qa_pass, confidence, precedent) ==
    \/ decision_tier = "C"
    \/ fact_status # "pass"
    \/ ~qa_pass
    \/ _clean_confidence(confidence) < DRAFT_MIN_CONFIDENCE

\* policy_agent: needs_human_review, in a process whose environment sets
\* DRAFT_MIN_CONFIDENCE to minimum
policy_agent_at(minimum, decision_tier, fact_status, qa_pass, confidence, precedent) ==
    LET has_auto_precedent ==
            precedent.found /\ precedent.decision \in {"approve", "auto_publish"}
        draft_confidence == _clean_confidence(confidence)
        needs_human_review ==
            \/ decision_tier = "C"
            \/ fact_status # "pass"
            \/ ~qa_pass
            \/ draft_confidence < minimum
    IN IF decision_tier \in {"A", "B"} /\ has_auto_precedent
          /\ draft_confidence >= minimum
       THEN FALSE
       ELSE needs_human_review

\* policy_agent: needs_human_review, with the default DRAFT_MIN_CONFIDENCE
policy_agent(decision_tier, fact_status, qa_pass, confidence, precedent) ==
    policy_agent_at(DRAFT_MIN_CONFIDENCE, decision_tier, fact_status, qa_pass,
                    confidence, precedent)

\* a publisher that does not look at the policy result
publish_agent_always(wo, needs_human_review, auto_send) ==
    <<[work_order_id |-> wo, send |-> IF auto_send THEN "True" ELSE "False"]>>

\* publish_agent: None (no payload) or the publish row
publish_agent(wo, needs_human_review, auto_send) ==
    IF needs_human_review THEN <<>>
    ELSE <<[work_order_id |-> wo, send |-> IF auto_send THEN "True" ELSE "False"]>>

\* policy_agent is called on any tier, fact status, QA verdict, confidence and
\* precedent
AgentPolicy ==
    /\ agent.at = "idle"
    /\ \E t \in Tiers, f \in {"pass", "needs_review"}, q \in BOOLEAN,
          c \in RawConfidences, p \in Precedents, a \in BOOLEAN :
        agent' = [at |-> "policy", tier |-> t, fact_status |-> f, qa_pass |-> q,
                  confidence |-> c, precedent |-> p, auto_send |-> a,
                  needs_human_review |-> policy_agent(t, f, q, c, p),
                  payloads |-> <<>>]
    /\ UNCHANGED <<qvars, publish_queue, dvars, runs, events, exec, xvars>>

\* publish_agent is called with the policy result
AgentPublish ==
    /\ agent.at = "policy"
    /\ \E wo \in OneOrder :
        agent' = [agent EXCEPT !.at = "publish",
                               !.payloads = publish_agent(wo, agent.needs_human_review,
                                                          agent.auto_send)]
    /\ UNCHANGED <<qvars, publish_queue, dvars, runs, events, exec, xvars>>

\* the caller takes the result
AgentReturn ==
    /\ agent.at = "publish"
    /\ agent' = NoAgent
    /\ UNCHANGED <<qvars, publish_queue, dvars, runs, events, exec, xvars>>

AgentNext == AgentPolicy \/ AgentPublish \/ AgentReturn

AgentSpec == Init /\ [][AgentNext]_vars

----------------------------------------------------------------------------
\* C14: the Publish stage emits no publish payload when the Policy result
\* has needs_human_review = true and exactly one when it is false, whatever
\* the other inputs are.
C14_PublishFollowsPolicy ==
    agent.at = "publish"
    => Len(agent.payloads) = IF agent.needs_human_review THEN 0 ELSE 1

\* a payload was emitted for a draft that failed QA and was waived by a precedent
C14_Witness ==
    /\ agent.at = "publish"
    /\ ~agent.needs_human_review
    /\ ~agent.qa_pass
    /\ Len(agent.payloads) = 1

\* C16: needs_human_review = (tier C or fact status not pass or QA failed or
\* confidence below the minimum) and not (tier A or B, a found approving
\* precedent, confidence at least the minimum); tier B, QA fail, fact pass,
\* confidence 0.9 gives true without a precedent and false with a found
\* approving one.
C16_PolicyFormula ==
    agent.at \in {"policy", "publish"}
    => LET c == IF agent.confidence = NULL THEN DefaultConfidence
                ELSE IF agent.confidence > 100 THEN 100 ELSE agent.confidence
           approving == agent.precedent.found
                        /\ agent.precedent.decision \in {"approve", "auto_publish"}
           raised == \/ agent.tier = "C"
                     \/ agent.fact_status # "pass"
                     \/ ~agent.qa_pass
                     \/ c < DRAFT_MIN_CONFIDENCE
           waived == agent.tier \in {"A", "B"} /\ approving /\ c >= DRAFT_MIN_CONFIDENCE
       IN /\ agent.needs_human_review = (raised /\ ~waived)
          /\ (agent.tier = "B" /\ ~agent.qa_pass /\ agent.fact_status = "pass"
              /\ agent.confidence = 90)
             => agent.needs_human_review = ~approving

\* tier B, QA fail, fact pass, confidence 0.9 and a found approving precedent:
\* review is waived
C16_Witness ==
    /\ agent.at = "policy"
    /\ agent.tier = "B" /\ ~agent.qa_pass /\ agent.fact_status = "pass"
    /\ agent.confidence = 90
    /\ agent.precedent = [found |-> TRUE, decision |-> "approve"]
    /\ ~agent.needs_human_review

----------------------------------------------------------------------------
\* The run store and the two pipelines: DurableOrchestrator and
\* SwarmSupervisor over the stages of orchestrator/stages.py.

\* how many times run_work_order is called
MaxRuns == 2

\* default_legacy_stages, and FallbackSwarmGraph._order
Stages == <<"tier", "context", "draft", "tone", "fact", "qa", "policy", "publish">>

Paths == {"orchestrator", "supervisor"}

\* the key of ctx.state a stage writes: TierStage writes "decision"
StateKey(s) == IF s = "tier" THEN "decision" ELSE s

StageIndex(s) == CHOOSE k \in 1..Len(Stages) : Stages[k] = s

NextStage(s) == Stages[StageIndex(s) + 1]

\* draft_agent's confidence: the fallback draft's 0.8 or the model's number
DraftConfidences == {40, 60, 80, 90}

\* lookup_precedent for the work order: a found approving precedent or none
RunPrecedents == {[found |-> TRUE, decision |-> "approve"],
                  [found |-> FALSE, decision |-> "unknown"]}

\* DRAFT_MIN_CONFIDENCE of the process: the default, or 0.30 set in the
\* environment
MinConfidences == {30, DRAFT_MIN_CONFIDENCE}

\* a WorkflowRun as start_run builds it
NewRun(run_id, wo) ==
    [run_id |-> run_id, work_order_id |-> wo, status |-> "running",
     current_stage |-> "start"]

\* InMemoryRunStore.start_run: self.runs[run_id] = run
MemStartRun(run_id, wo) == Append(runs, NewRun(run_id, wo))

\* PostgresRunStore.start_run: insert ... on conflict (work_order_id) do
\* update set status, current_stage, updated_at
PgStartRun(run_id, wo) ==
    IF \E k \in 1..Len(runs) : runs[k].work_order_id = wo
    THEN [k \in 1..Len(runs) |->
             IF runs[k].work_order_id = wo
             THEN [runs[k] EXCEPT !.status = "running", !.current_stage = "start"]
             ELSE runs[k]]
    ELSE Append(runs, NewRun(run_id, wo))

\* finish_run of both stores: the run with this run_id, if there is one
FinishedRuns(run_id, status, current_stage) ==
    [k \in 1..Len(runs) |->
        IF runs[k].run_id = run_id
        THEN [runs[k] EXCEPT !.status = status, !.current_stage = current_stage]
        ELSE runs[k]]

\* run_work_order has returned or raised
Ended == exec.at \in {"idle", "returned", "raised", "rejected"}

\* uuid4 of start_run: an id no run had before
FreshRunId == IF exec.at = "idle" THEN 1 ELSE exec.run_id + 1

\* run_work_order, to store.start_run and StageContext(work_order), for a
\* work order whose stripped id is wo
StartRunOf(path, wo) ==
    /\ Ended
    /\ FreshRunId <= MaxRuns
    /\ \E t \in Tiers, c \in DraftConfidences, p \in RunPrecedents,
          qa \in BOOLEAN, a \in BOOLEAN, m \in MinConfidences :
        /\ runs' = IF backend = "postgres" THEN PgStartRun(FreshRunId, wo)
                   ELSE MemStartRun(FreshRunId, wo)
        /\ exec' = [at |-> "tier", path |-> path, run_id |-> FreshRunId, wo |-> wo,
                    tier |-> t, confidence |-> c, precedent |-> p,
                    qa_accepts_work_order |-> qa, auto_send |-> a,
                    min_confidence |-> m,
                    state |-> {}, executed |-> <<>>, fact_status |-> "none",
                    qa_review |-> FALSE, policy_review |-> FALSE,
                    needs_human_review |-> FALSE, halt |-> FALSE,
                    payloads |-> <<>>]
    /\ UNCHANGED <<qvars, publish_queue, dvars, events, agent, xvars>>

\* run_work_order for a work order with an id
StartRun(path) == \E wo \in OneOrder : StartRunOf(path, wo)

\* StageResult.needs_human_review of a stage: QAStage qa_status != "pass",
\* PolicyStage the policy result's flag, the others the default False
StageReview(e, s) ==
    IF s = "qa" THEN ~qa_agent(e.confidence, TRUE)
    ELSE IF s = "policy"
         THEN policy_agent_at(e.min_confidence, e.tier, e.fact_status,
                              qa_agent(e.confidence, TRUE), e.confidence, e.precedent)
    ELSE FALSE

\* what of the work order and of the process the stages read
WorkOrderOf(e) ==
    [tier |-> e.tier, confidence |-> e.confidence, precedent |-> e.precedent,
     qa_accepts_work_order |-> e.qa_accepts_work_order, auto_send |-> e.auto_send,
     min_confidence |-> e.min_confidence]

\* stage.run(ctx): the stage writes its key of ctx.state
StageRun(e, s) ==
    [e EXCEPT !.state = @ \cup {StateKey(s)},
              !.executed = Append(@, s),
              !.fact_status = IF s = "fact" THEN fact_agent(e.tier) ELSE @,
              !.qa_review = IF s = "qa" THEN StageReview(e, s) ELSE @,
              !.policy_review = IF s = "policy" THEN StageReview(e, s) ELSE @,
              !.payloads = IF s = "publish"
                           THEN publish_agent(e.wo, e.policy_review, e.auto_send)
                           ELSE @]

\* PublishStage: payload = row or {"status": "skipped", ...}; the marker has
\* no "send" key
PublishPayloadSend(e) ==
    IF e.payloads = <<>> THEN "absent" ELSE e.payloads[1].send

\* a StageEvent
NewEvent(run_id, s, review) ==
    [run_id |-> run_id, stage |-> s, needs_human_review |-> review]

\* PostgresRunStore.persist_artifact of the publish stage's result: a row of
\* publish_queue; InMemoryRunStore keeps artifacts in a list of its own
PersistArtifact(s, e) ==
    IF backend = "postgres" /\ s = "publish"
    THEN /\ publish_queue' = PersistPublish(e.wo, PublishPayloadSend(e))
         /\ delivered' = Append(delivered, 0)
         /\ posted' = Append(posted, 0)
    ELSE UNCHANGED <<publish_queue, delivered, posted>>

\* DurableOrchestrator.run_work_order, one turn of the loop over the stages
OrchStage(s) ==
    /\ exec.at = s
    /\ exec.path = "orchestrator"
    /\ s = "qa" => exec.qa_accepts_work_order
    /\ LET e == StageRun(exec, s)
           review == StageReview(exec, s)
       IN /\ events' = Append(events, NewEvent(exec.run_id, s, review))
          /\ PersistArtifact(s, e)
          /\ exec' = [e EXCEPT !.at = IF s = "publish" THEN "finish" ELSE NextStage(s),
                               !.needs_human_review =
                                   @ \/ (review /\ s \in {"qa", "policy"})]
    /\ UNCHANGED <<qvars, dpc, drow, auto_send_enabled, runs, agent, xvars>>

\* QAStage.run passes work_order= to qa_agent(draft, tone_checked,
\* fact_checked): TypeError, which run_work_order does not catch
QARaises ==
    /\ exec.at = "qa"
    /\ ~exec.qa_accepts_work_order
    /\ exec' = [at |-> "raised", run_id |-> exec.run_id, wo |-> exec.wo,
                path |-> exec.path, executed |-> exec.executed, tier |-> exec.tier,
                work_order |-> WorkOrderOf(exec)]
    /\ UNCHANGED <<qvars, publish_queue, dvars, runs, events, agent, xvars>>

\* FallbackSwarmGraph.invoke, one node: the stage runs, policy_agent sets
\* halt, and the loop breaks on halt
SupNode(s) ==
    /\ exec.at = s
    /\ exec.path = "supervisor"
    /\ s = "qa" => exec.qa_accepts_work_order
    /\ LET e == StageRun(exec, s)
           halt == IF s = "policy" THEN StageReview(exec, s) ELSE exec.halt
       IN exec' = [e EXCEPT !.halt = halt,
                            !.at = IF halt \/ s = "publish" THEN "persist"
                                   ELSE NextStage(s)]
    /\ UNCHANGED <<qvars, publish_queue, dvars, runs, events, agent, xvars>>

\* _persist_ctx_state: stage_order without monday_context, which no node of
\* the graph writes
PersistOrder == <<"context", "draft", "qa", "policy", "publish">>

InState(s) == s \in exec.state

\* _persist_ctx_state: needs_human_review of the event of a stage
PersistedReview(s) ==
    IF s = "qa" THEN exec.qa_review
    ELSE IF s = "policy" THEN exec.policy_review
    ELSE FALSE

\* SwarmSupervisor._persist_ctx_state
SupPersist ==
    /\ exec.at = "persist"
    /\ LET logged == SelectSeq(PersistOrder, InState)
       IN events' = events \o [k \in 1..Len(logged) |->
                                  NewEvent(exec.run_id, logged[k],
                                           PersistedReview(logged[k]))]
    /\ IF "publish" \in exec.state THEN PersistArtifact("publish", exec)
       ELSE UNCHANGED <<publish_queue, delivered, posted>>
    /\ exec' = [exec EXCEPT !.at = "finish"]
    /\ UNCHANGED <<qvars, dpc, drow, auto_send_enabled, runs, agent, xvars>>

\* final_status of run_work_order: the orchestrator's flag, the supervisor's
\* run_status with "running" read as "completed"
FinalStatus(e) ==
    IF e.path = "orchestrator"
    THEN IF e.needs_human_review THEN "needs_human_review" ELSE "completed"
    ELSE IF e.halt THEN "needs_human_review" ELSE "completed"

\* final_stage of run_work_order
FinalStage(e) ==
    IF e.path = "orchestrator" \/ "publish" \in e.state THEN "publish" ELSE "policy"

\* "publish": ctx.state.get("publish"): None, the skipped marker, or the
\* publish row, of which the model keeps "send"
PublishValue(e) ==
    IF "publish" \notin e.state THEN "None"
    ELSE IF e.payloads = <<>> THEN "skipped"
    ELSE PublishPayloadSend(e)

\* run_work_order: store.finish_run and the returned dict
Finish ==
    /\ exec.at = "finish"
    /\ runs' = FinishedRuns(exec.run_id, FinalStatus(exec), FinalStage(exec))
    /\ exec' = [at |-> "returned", run_id |-> exec.run_id, wo |-> exec.wo,
                path |-> exec.path, executed |-> exec.executed,
                status |-> FinalStatus(exec), tier |-> exec.tier,
                qa_review |-> exec.qa_review, policy_review |-> exec.policy_review,
                current_stage |-> FinalStage(exec), publish |-> PublishValue(exec),
                work_order |-> WorkOrderOf(exec)]
    /\ UNCHANGED <<qvars, publish_queue, dvars, events, agent, xvars>>

PipeNext ==
    \/ \E path \in Paths : StartRun(path)
    \/ \E k \in 1..Len(Stages) : OrchStage(Stages[k])
    \/ \E k \in 1..Len(Stages) : SupNode(Stages[k])
    \/ QARaises
    \/ SupPersist
    \/ Finish

PipeSpec == Init /\ [][PipeNext]_vars

----------------------------------------------------------------------------
\* C13: a publish-queue row is created for a run only when the run's Policy
\* result has needs_human_review = false; a run held for human review, whose
\* Publish stage result is the 'skipped' marker, creates no row. On both
\* paths.
C13_PublishRowOnlyWhenApproved ==
    [][Len(publish_queue') > Len(publish_queue)
       => ("policy" \in exec.state /\ ~exec.policy_review)]_vars

\* the stored status of a run of work order wo is st
StoredStatusIs(wo, st) ==
    /\ \E k \in 1..Len(runs) : runs[k].work_order_id = wo
    /\ \A k \in 1..Len(runs) : runs[k].work_order_id = wo => runs[k].status = st

\* C15: a tier C work order is held for human review: its Fact status is
\* needs_review, its Policy result has needs_human_review = true whatever
\* the precedent and the confidence are, no publish payload is emitted for
\* it, and when run_work_order has ended its run has status
\* needs_human_review.
C15_TierCHeld ==
    /\ (~Ended /\ exec.tier = "C")
       => /\ "fact" \in exec.state => exec.fact_status = "needs_review"
          /\ "policy" \in exec.state => exec.policy_review
          /\ exec.payloads = <<>>
    /\ (exec.at \in {"returned", "raised"} /\ exec.tier = "C")
       => StoredStatusIs(exec.wo, "needs_human_review")

\* C17: the run store holds at most one WorkflowRun per work_order_id after
\* any sequence of start_run calls; running a work order again updates the
\* existing run. For PostgresRunStore and for InMemoryRunStore.
C17_OneRunPerWorkOrder ==
    \A j, k \in 1..Len(runs) :
        runs[j].work_order_id = runs[k].work_order_id => j = k

\* C18: the final status that run_work_order returns and stores is
\* needs_human_review if and only if the QA stage or the Policy stage raised
\* needs_human_review during the run, and completed otherwise; a stored
\* status is always one of running, completed, needs_human_review. For
\* DurableOrchestrator and for SwarmSupervisor.
C18_FinalStatus ==
    /\ \A k \in 1..Len(runs) :
        runs[k].status \in {"running", "completed", "needs_human_review"}
    /\ exec.at = "returned"
       => /\ exec.status = IF exec.qa_review \/ exec.policy_review
                           THEN "needs_human_review" ELSE "completed"
          /\ StoredStatusIs(exec.wo, exec.status)
             \/ \E k \in 1..Len(runs) : /\ runs[k].run_id = exec.run_id
                                        /\ runs[k].status = exec.status

\* C19: once the stored status of a work order's run is needs_human_review,
\* no later operation changes it; a re-execution of the same work order
\* never moves the run back to running or to completed.
C19_ReviewIsTerminal ==
    [][\A k \in 1..Len(runs) :
          runs[k].status = "needs_human_review"
          => /\ k <= Len(runs')
             /\ runs'[k].work_order_id = runs[k].work_order_id
             /\ runs'[k].status = "needs_human_review"]_vars

\* the event belongs to the run of the last run_work_order call
OfLastRun(ev) == ev.run_id = exec.run_id

\* the stages of the events of the last run, in the order of the log
LoggedStages ==
    LET logged == SelectSeq(events, OfLastRun)
    IN [k \in 1..Len(logged) |-> logged[k].stage]

\* C20: the event log is append-only, no operation modifies or removes an
\* event, and a run appends exactly one event for every stage it executed
\* (tier, context, draft, tone, fact, qa, policy, and publish when it ran),
\* in pipeline order. For DurableOrchestrator and for SwarmSupervisor.
C20_EventLog ==
    [][ /\ Len(events') >= Len(events)
        /\ \A k \in 1..Len(events) : events'[k] = events[k]
        /\ exec.at \in {"returned", "raised"} => LoggedStages = exec.executed
      ]_vars

----------------------------------------------------------------------------
\* The two executors of build_swarm_graph over the same nodes.

\* the SwarmState that SwarmSupervisor.run_work_order hands to graph.invoke
SwarmState(t, c, p, qa, a, m) ==
    [ctx |-> [tier |-> t, confidence |-> c, precedent |-> p,
              qa_accepts_work_order |-> qa, auto_send |-> a, min_confidence |-> m,
              wo |-> "wo1", state |-> {}, executed |-> <<>>, fact_status |-> "none",
              qa_review |-> FALSE, policy_review |-> FALSE, payloads |-> <<>>],
     halt |-> FALSE, run_status |-> "running", raised |-> FALSE]

\* one node of SwarmNodes applied to the state and its update merged in:
\* the stage runs on ctx; policy_agent sets halt and run_status; a QAStage
\* whose qa_agent rejects work_order= raises
NodeApplied(st, s) ==
    IF s = "qa" /\ ~st.ctx.qa_accepts_work_order
    THEN [st EXCEPT !.raised = TRUE]
    ELSE LET review == StageReview(st.ctx, s)
         IN [st EXCEPT !.ctx = StageRun(st.ctx, s),
                       !.halt = IF s = "policy" THEN review ELSE @,
                       !.run_status = IF s = "policy"
                                      THEN IF review THEN "needs_human_review"
                                           ELSE "running"
                                      ELSE @]

\* FallbackSwarmGraph.invoke from the k-th node of _order: break on halt
RECURSIVE FallbackFrom(_, _)
FallbackFrom(st, k) ==
    IF k > Len(Stages) THEN st
    ELSE LET current == NodeApplied(st, Stages[k])
         IN IF current.raised \/ current.halt THEN current
            ELSE FallbackFrom(current, k + 1)

\* a route that goes on to publish_agent whatever halt is
route_always_publish(st) == "publish"

\* route_after_policy of build_swarm_graph
route_after_policy(st) == IF st.halt THEN "END" ELSE "publish"

\* the edges of the StateGraph: the node after node s in state st
GraphEdge(st, s) ==
    IF s = "policy" THEN route_after_policy(st)
    ELSE IF s = "publish" THEN "END"
    ELSE NextStage(s)

\* the compiled StateGraph run from node s
RECURSIVE GraphFrom(_, _)
GraphFrom(st, s) ==
    LET current == NodeApplied(st, s)
    IN IF current.raised \/ GraphEdge(current, s) = "END" THEN current
       ELSE GraphFrom(current, GraphEdge(current, s))

\* both executors are invoked on the same SwarmState
InvokeBoth ==
    /\ exec.at = "idle"
    /\ \E t \in Tiers, c \in DraftConfidences, p \in RunPrecedents,
          qa \in BOOLEAN, a \in BOOLEAN, m \in MinConfidences :
        LET st == SwarmState(t, c, p, qa, a, m)
        IN exec' = [at |-> "invoked", input |-> st,
                    fallback |-> FallbackFrom(st, 1),
                    graph |-> GraphFrom(st, "tier")]
    /\ UNCHANGED <<qvars, publish_queue, dvars, runs, events, agent, xvars>>

\* the results are dropped
InvokeDone ==
    /\ exec.at = "invoked"
    /\ exec' = NoExec
    /\ UNCHANGED <<qvars, publish_queue, dvars, runs, events, agent, xvars>>

GraphNext == InvokeBoth \/ InvokeDone

GraphSpec == Init /\ [][GraphNext]_vars

\* C21: the sequential fallback executor and the graph executor execute the
\* same stages in the same order and end in the same observable state: the
\* same keys and values in the shared context, the same halt flag and the
\* same run_status.
C21_ExecutorsAgree ==
    exec.at = "invoked"
    => /\ exec.fallback.ctx.executed = exec.graph.ctx.executed
       /\ exec.fallback.ctx = exec.graph.ctx
       /\ exec.fallback.halt = exec.graph.halt
       /\ exec.fallback.run_status = exec.graph.run_status
       /\ exec.fallback.raised = exec.graph.raised

\* a held run: both executors stopped after policy, publish did not run
C21_Witness ==
    /\ exec.at = "invoked"
    /\ ~exec.fallback.raised
    /\ exec.fallback.halt
    /\ exec.graph.ctx.executed =
           <<"tier", "context", "draft", "tone", "fact", "qa", "policy">>

----------------------------------------------------------------------------
\* ActionableSwarmIngestor over the actionable log. Sizes and offsets are in
\* writes: log.rows holds what each write put into the file, a whole line or,
\* when a line reaches the file in two writes, its head and later its tail.

\* most rows one log file holds
MaxLog == 3
\* most records ever appended to the log
MaxRecords == 4
\* how many times the log is rotated
MaxRotations == 1
\* a pass begins only while the queue holds fewer jobs than this
MaxIngestJobs == 4

\* _start_signature reads the first 256 bytes: the rows they cover
SampleRows == 2

\* a line of the log: a record with a work order and an id, a record without
\* a "work_order" object, a record whose work order has a blank id
RowKinds == {"ok", "no_work_order", "blank_id"}

\* the id in the work order of record number n
WorkOrderId(n) == "wo" \o ToString(n)

\* the record a writer appends next
NewRow(kind) == [n |-> log.next, kind |-> kind, gen |-> log.gen, part |-> "whole"]

\* the last line of the file has no newline yet
Writing == log.rows # <<>> /\ log.rows[Len(log.rows)].part = "head"

\* a writer appends one record to the log
LogAppend(kind) ==
    /\ ~Writing
    /\ Len(log.rows) < MaxLog
    /\ log.next <= MaxRecords
    /\ log' = [log EXCEPT !.rows = Append(@, NewRow(kind)),
                          !.mtime = @ + 1, !.next = @ + 1]
    /\ UNCHANGED <<qvars, publish_queue, dvars, pvars, ingest, reviews, memory, sender, kept>>

\* the log is rotated or truncated: a new, empty file under the same path
LogRotate ==
    /\ log.gen < MaxRotations
    /\ log.rows # <<>>
    /\ log' = [log EXCEPT !.rows = <<>>, !.mtime = @ + 1, !.gen = @ + 1]
    /\ UNCHANGED <<qvars, publish_queue, dvars, pvars, ingest, reviews, memory, sender, kept>>

\* the lines of a stretch of the file: a head and the tail after it are one
\* line
RECURSIVE Joined(_)
Joined(rows) ==
    IF rows = <<>> THEN <<>>
    ELSE IF Len(rows) >= 2 /\ rows[1].part = "head" /\ rows[2].part = "tail"
         THEN <<[rows[1] EXCEPT !.part = "whole"]>> \o Joined(Tail(Tail(rows)))
         ELSE <<Head(rows)>> \o Joined(Tail(rows))

\* _start_signature: sha1 of the first 256 bytes
_start_signature ==
    LET lines == Joined(log.rows)
    IN [known |-> TRUE, sample |-> SubSeq(lines, 1, Min(SampleRows, Len(lines)))]

\* ingest_once, lines 76-80: the stored offset is dropped
ResetOffset(offset, previous_mtime_ns, previous_start_sig) ==
    \/ offset > Len(log.rows)
    \/ _start_signature # previous_start_sig
    \/ (Len(log.rows) <= offset /\ log.mtime # previous_mtime_ns)

\* ingest_once, lines 69-80: _load_state, stat, _start_signature, the offset
IngestStat ==
    /\ ingest.pc = "idle"
    /\ Len(jobs) < MaxIngestJobs
    /\ ingest' = [ingest EXCEPT
                    !.pc = "stat",
                    !.seek = IF ResetOffset(ingest.offset, ingest.mtime_ns,
                                            ingest.start_sig)
                             THEN 0 ELSE ingest.offset,
                    !.stat_mtime_ns = log.mtime,
                    !.stat_sig = _start_signature]
    /\ UNCHANGED <<qvars, publish_queue, dvars, pvars, log, reviews, memory, sender, kept>>

\* _extract_work_order: the work order's id, "" for None
_extract_work_order(row) ==
    IF row.kind = "ok" THEN WorkOrderId(row.n) ELSE ""

\* queue.enqueue on a queue that holds js
EnqueuedInto(js, wo) ==
    IF backend = "postgres" /\ \E k \in 1..Len(js) : js[k].work_order_id = wo
    THEN js
    ELSE Append(js, NewJob(wo))

\* ingest_once, lines 91-110: the loop over the lines of the chunk
RECURSIVE EnqueueAll(_, _)
EnqueueAll(js, chunk) ==
    IF chunk = <<>> THEN js
    ELSE LET wo == _extract_work_order(Head(chunk))
         IN EnqueueAll(IF wo = "" THEN js ELSE EnqueuedInto(js, wo), Tail(chunk))

IsEnqueued(row) == _extract_work_order(row) # ""

IsSkipped(row) == _extract_work_order(row) = ""

\* the stats of a pass over the chunk
StatsOf(chunk) ==
    [rows_read |-> Len(chunk),
     rows_enqueued |-> Len(SelectSeq(chunk, IsEnqueued)),
     rows_skipped |-> Len(SelectSeq(chunk, IsSkipped))]

\* f.seek(offset); chunk = f.read()
Chunk == SubSeq(log.rows, ingest.seek + 1, Len(log.rows))

\* chunk.splitlines() and json.loads(line): a line that is only the head or
\* only the tail of a record raises, and the row is skipped
ParsedLines(chunk) ==
    LET lines == Joined(chunk)
    IN [k \in 1..Len(lines) |->
           IF lines[k].part = "whole" THEN lines[k]
           ELSE [lines[k] EXCEPT !.kind = "fragment"]]

\* ingest_once, lines 82-110: read from the offset to the end, enqueue
IngestRead ==
    /\ ingest.pc = "stat"
    /\ jobs' = EnqueueAll(jobs, ParsedLines(Chunk))
    /\ ingest' = [ingest EXCEPT !.pc = "read",
                                !.new_offset = Max(ingest.seek, Len(log.rows)),
                                !.stats = StatsOf(ParsedLines(Chunk))]
    /\ UNCHANGED <<backend, now, pc, held, attempt_read, recovered,
                   publish_queue, dvars, pvars, log, reviews, memory, sender, kept>>

\* ingest_once, lines 88 and 112: _save_state
IngestSave ==
    /\ ingest.pc = "read"
    /\ ingest' = [ingest EXCEPT !.pc = "idle",
                                !.offset = ingest.new_offset,
                                !.mtime_ns = ingest.stat_mtime_ns,
                                !.start_sig = ingest.stat_sig]
    /\ UNCHANGED <<qvars, publish_queue, dvars, pvars, log, reviews, memory, sender, kept>>

\* the process dies during a pass, before _save_state
IngestCrash ==
    /\ ingest.pc \in {"stat", "read"}
    /\ ingest' = [ingest EXCEPT !.pc = "idle"]
    /\ UNCHANGED <<qvars, publish_queue, dvars, pvars, log, reviews, memory, sender, kept>>

IngestNext ==
    \/ \E kind \in RowKinds : LogAppend(kind)
    \/ LogRotate
    \/ IngestStat
    \/ IngestRead
    \/ IngestSave
    \/ IngestCrash

IngestSpec == Init /\ [][IngestNext]_vars

\* the jobs of the queue for record number n
JobsOf(n) == {k \in 1..Len(jobs) : jobs[k].work_order_id = WorkOrderId(n)}

\* no record of the log has a second job
NoSecondJob == \A n \in 1..MaxRecords : Cardinality(JobsOf(n)) <= 1

\* after a pass that saved its state over the file as it is now, every
\* well-formed record of the file has a job
NoneMissed ==
    (ingest.pc = "idle" /\ ingest.start_sig.known /\ ingest.mtime_ns = log.mtime)
        => \A k \in 1..Len(log.rows) :
              log.rows[k].kind = "ok" => JobsOf(log.rows[k].n) # {}

\* C22: across appends and ingest passes, passes repeated after a crash
\* between enqueueing and saving included, every well-formed record of the log
\* has exactly one job in the queue, on the Postgres queue and on the
\* in-memory queue: none is missed, none gets a second job.
C22_ExactlyOneJob == NoneMissed /\ NoSecondJob

\* the same on the Postgres queue alone
C22_PostgresOnly == backend = "postgres" => C22_ExactlyOneJob

\* the file is as the last saved pass left it: nothing was added after the
\* bytes that pass read, and it is the same file
UnchangedSincePass ==
    /\ ingest.start_sig = _start_signature
    /\ ingest.offset = Len(log.rows)

\* the step of a pass that reads the chunk and counts its rows
PassReads == ingest.pc = "stat" /\ ingest'.pc = "read"

\* the counts of a pass add up, and count the rows of the chunk it read
StatsAddUp ==
    PassReads =>
        /\ ingest'.stats.rows_read
             = ingest'.stats.rows_enqueued + ingest'.stats.rows_skipped
        /\ ingest'.stats.rows_read = Len(Chunk)
        /\ ingest'.stats.rows_skipped
             = Cardinality({k \in ingest.seek + 1..Len(log.rows) :
                              log.rows[k].kind # "ok"})

\* a pass over an unchanged, unrotated file reads no skipped row again
SkippedNotRetried ==
    (PassReads /\ UnchangedSincePass) => ingest'.stats.rows_skipped = 0

\* C23: in one pass every line of the newly read bytes is counted in rows_read
\* and is either enqueued or counted in rows_skipped, so that
\* rows_read = rows_enqueued + rows_skipped; a skipped row is never retried by
\* a later pass over an unchanged, unrotated file.
C23_CountedNotRetried == [][StatsAddUp /\ SkippedNotRetried]_vars

\* the counting half alone
C23_StatsAddUp == [][StatsAddUp]_vars

\* a pass over an unchanged file reads nothing and leaves the offset at the
\* end of the file
NothingNewNothingRead ==
    (PassReads /\ UnchangedSincePass) =>
        /\ ingest'.stats.rows_read = 0
        /\ ingest'.stats.rows_enqueued = 0
        /\ jobs' = jobs
        /\ ingest'.new_offset = Len(log.rows)

\* C24: a pass over a log that has had no bytes added and no rotation since
\* the previous pass reads 0 rows and enqueues 0 jobs, and the stored offset
\* stays equal to the file size.
C24_NoNewBytesNoRows == [][NothingNewNothingRead]_vars

\* the step of a pass that loads the state, stats the file and picks the offset
PassStats == ingest.pc = "idle" /\ ingest'.pc = "stat"

\* rotation or truncation as the specification describes it: the signature
\* changed, or the file shrank below the stored offset and its mtime changed
RotatedOrTruncated ==
    \/ _start_signature # ingest.start_sig
    \/ (Len(log.rows) < ingest.offset /\ log.mtime # ingest.mtime_ns)

\* the pass starts at 0 exactly then, and at the stored offset otherwise
ResetExactly ==
    PassStats =>
        ingest'.seek = IF RotatedOrTruncated THEN 0 ELSE ingest.offset

\* the file is the one the last saved pass read: it starts with the same record
SameFile ==
    /\ ingest.start_sig.known
    /\ ingest.start_sig.sample # <<>>
    /\ log.rows # <<>>
    /\ ingest.start_sig.sample[1] = log.rows[1]

\* a pass over the same, possibly longer, file reads no record again
AppendNeverRereads ==
    (PassReads /\ SameFile) => ingest.seek >= ingest.offset

\* C25: the offset is reset to 0 exactly when the log was rotated or truncated
\* (the leading-bytes signature changed, or the file shrank below the stored
\* offset while its mtime changed); otherwise the pass reads from the stored
\* offset, so appending to an unrotated log never makes a pass read
\* already-ingested records again.
C25_ResetOnlyOnRotation == [][ResetExactly /\ AppendNeverRereads]_vars

\* the two halves
C25_ResetExactly == [][ResetExactly]_vars

C25_AppendNeverRereads == [][AppendNeverRereads]_vars

----------------------------------------------------------------------------
\* intake_stream_processor.process_once, the writer of the actionable log

\* an inbound work order: with an id, without one (or with a blank one),
\* or one that decide() rejects as noise
OrderKinds == {"ok", "blank_id", "noise"}

\* str(order.get("id", "")) of order number n
OrderId(kind, n) == IF kind = "ok" THEN WorkOrderId(n) ELSE ""

\* decide(): a new order is rejected for its sender or subject, never for its id
decide(kind) == IF kind = "noise" THEN "rejected" ELSE "actionable"

\* process_once over a store with one new order; direct is
\* SWARM_DIRECT_ENQUEUE_ENABLED, the queue is built only with a DATABASE_URL
process_once(kind, direct) ==
    /\ Len(log.rows) < MaxLog
    /\ log.next <= MaxRecords
    /\ Len(jobs) < MaxIngestJobs
    /\ IF decide(kind) = "actionable"
       THEN /\ log' = [log EXCEPT !.rows = Append(@, NewRow(kind)),
                                  !.mtime = @ + 1, !.next = @ + 1]
            /\ jobs' = IF direct /\ backend = "postgres"
                       THEN EnqueuedInto(jobs, OrderId(kind, log.next))
                       ELSE jobs
       ELSE /\ log' = [log EXCEPT !.next = @ + 1]
            /\ jobs' = jobs
    /\ UNCHANGED <<backend, now, pc, held, attempt_read, recovered,
                   publish_queue, dvars, pvars, ingest, reviews, memory, sender, kept>>

IntakeNext ==
    \/ \E kind \in OrderKinds, direct \in BOOLEAN : process_once(kind, direct)
    \/ IngestStat
    \/ IngestRead
    \/ IngestSave

IntakeSpec == Init /\ [][IntakeNext]_vars

\* C26: no job is ever created for a record whose work order is missing or
\* has a missing or blank id, neither by an ingest pass nor by the intake
\* stream processor.
C26_NoJobWithoutId == \A k \in 1..Len(jobs) : jobs[k].work_order_id # ""

----------------------------------------------------------------------------
(* SwarmWorker.process_once and the job it claimed *)

\* the last queue call of process_once: the step at which it returns
ProcessOnceReturns(w) ==
    \/ MarkDone(w)
    \/ MarkDeadLetter(w)
    \/ MarkRetryWrite(w)
    \/ MarkRetryMem(w)

\* the job a returning process_once had claimed is done after a run that
\* succeeded, queued or dead_letter after a run that raised
LeftNotRunning ==
    \A w \in Workers :
        (pc[w] \in {"persisted", "failed", "retry_read"} /\ pc'[w] = "idle"
            /\ ProcessOnceReturns(w))
        => IF pc[w] = "persisted"
           THEN jobs'[held[w].job_id].status = "done"
           ELSE jobs'[held[w].job_id].status \in {"queued", "dead_letter"}

\* an exception of the run is caught: the worker goes on to a mark_* call
RunFailureHandled ==
    \A w \in Workers :
        pc[w] = "failed"
            => ENABLED (MarkDeadLetter(w) \/ MarkRetryRead(w) \/ MarkRetryMem(w))

\* C27: whenever process_once claimed a job, the job is no longer running when
\* it returns: done if the run succeeded, queued or dead_letter if the run
\* raised; a failure of the run never escapes process_once, which goes on to
\* mark_retry or mark_dead_letter.
C27_ClaimedJobLeftNotRunning == [][LeftNotRunning]_vars /\ []RunFailureHandled

\* a job is done at its second attempt and every process_once has returned
C27_Witness ==
    \E i \in JobIds :
        /\ jobs[i].status = "done"
        /\ jobs[i].attempt = 2
        /\ \A w \in Workers : pc[w] = "idle"

----------------------------------------------------------------------------
(* precedent_memory *)

\* most records the precedent file holds
MaxPrecedents == 10
\* most of them under the second key
MaxOtherKey == 2

\* _make_key(sender, labels, tier) of two kinds of work order
PrecedentKeys == {"example.com|support|A", "other.org||B"}

\* _decision_for_action gives approve or reject
Decisions == {"approve", "reject"}

\* lookup_precedent: min_samples = 2
min_samples == 2
\* lookup_precedent: min_confidence = 0.7, in tenths
min_confidence == 7

HasOtherKey(row) == row.key = "other.org||B"

\* append_precedent: one record at the end of the file
append_precedent(key, decision) ==
    /\ Len(memory.rows) < MaxPrecedents
    /\ key = "other.org||B" => Len(SelectSeq(memory.rows, HasOtherKey)) < MaxOtherKey
    /\ memory' = [rows |-> Append(memory.rows, [key |-> key, decision |-> decision]),
                  match |-> NoMatch]
    /\ UNCHANGED <<qvars, publish_queue, dvars, pvars, log, ingest, reviews, sender, kept>>

\* rows = [row for row in _read_jsonl(path) if row.get("key") == key]
RowsOf(key) ==
    LET HasKey(row) == row.key = key IN SelectSeq(memory.rows, HasKey)

\* Counter(...): how often decision d occurs in rows
Counted(rows, d) == Cardinality({k \in 1..Len(rows) : rows[k].decision = d})

\* where decision d occurs first in rows (a Counter keeps insertion order)
FirstAt(rows, d) ==
    CHOOSE k \in 1..Len(rows) :
        rows[k].decision = d /\ \A h \in 1..(k - 1) : rows[h].decision # d

\* counts.most_common(1)[0]: the highest count, the earliest decision on a tie
most_common(rows) ==
    CHOOSE d \in {rows[k].decision : k \in 1..Len(rows)} :
        \A e \in {rows[k].decision : k \in 1..Len(rows)} :
            \/ Counted(rows, d) > Counted(rows, e)
            \/ Counted(rows, d) = Counted(rows, e) /\ FirstAt(rows, d) <= FirstAt(rows, e)

\* a lookup that is content with one sample
enough_samples_one(n) == n >= 1

\* enough_samples = len(rows) >= min_samples
enough_samples(n) == n >= min_samples

\* high_confidence = count / len(rows) >= min_confidence
high_confidence(count, n) == 10 * count >= min_confidence * n

\* lookup_precedent(sender, labels, tier): the PrecedentMatch; its confidence
\* is count / sample_size
PrecedentMatch(key) ==
    LET rows == RowsOf(key)
    IN IF rows = <<>>
       THEN [found |-> FALSE, decision |-> "unknown", count |-> 0, key |-> key,
             sample_size |-> 0]
       ELSE LET decision == most_common(rows)
                count == Counted(rows, decision)
            IN [found |-> enough_samples(Len(rows)) /\ high_confidence(count, Len(rows)),
                decision |-> decision, count |-> count, key |-> key,
                sample_size |-> Len(rows)]

\* one call of lookup_precedent
lookup_precedent(key) ==
    /\ memory' = [memory EXCEPT !.match = PrecedentMatch(key)]
    /\ UNCHANGED <<qvars, publish_queue, dvars, pvars, log, ingest, reviews, sender, kept>>

MemoryNext ==
    \/ \E key \in PrecedentKeys, decision \in Decisions : append_precedent(key, decision)
    \/ \E key \in PrecedentKeys : lookup_precedent(key)

MemorySpec == Init /\ [][MemoryNext]_vars

\* the records of the file under the key of the last lookup
KeyRows == {k \in 1..Len(memory.rows) : memory.rows[k].key = memory.match.key}

\* how many of them carry decision d
KeyCount(d) == Cardinality({k \in KeyRows : memory.rows[k].decision = d})

\* the count of the majority decision
MajorityCount ==
    CHOOSE m \in 0..Cardinality(KeyRows) :
        /\ \A d \in Decisions : KeyCount(d) <= m
        /\ KeyRows # {} => \E d \in Decisions : KeyCount(d) = m

\* C29: lookup returns found = true exactly when the number n of records
\* with the key is at least 2 and the count m of the majority decision has
\* m / n >= 0.7; the reported confidence is m / n, the reported decision is a
\* majority decision.
C29_FoundIffEnoughAndConfident ==
    memory.match.key # "" =>
        LET n == Cardinality(KeyRows)
            m == MajorityCount
        IN /\ memory.match.found <=> (n >= 2 /\ 10 * m >= 7 * n)
           /\ memory.match.sample_size = n
           /\ memory.match.count = m
           /\ n > 0 => KeyCount(memory.match.decision) = m

\* seven records of ten agree: found, with confidence 0.7 exactly
C29_Witness ==
    /\ memory.match.found
    /\ memory.match.sample_size = 10
    /\ memory.match.count = 7

----------------------------------------------------------------------------
(* review_actions_service *)

\* most review requests the server receives
MaxReviews == 3

\* ThreadingHTTPServer: one thread per request, two at a time
Handlers == {"h1", "h2"}

ALLOWED_ACTIONS == {"approve", "edit_approve", "reject"}

\* the work orders that have an escalation row
Escalated == {"wo1", "wo2"}

\* any(row.work_order_id == work_order_id for row in _read_jsonl(PUBLISH_PATH))
_publish_exists(work_order_id) ==
    \E k \in 1..Len(reviews.publish) : reviews.publish[k] = work_order_id

\* _decision_for_action
_decision_for_action(action) ==
    IF action \in {"approve", "edit_approve"} THEN "approve" ELSE "reject"

\* apply_review_action, lines 95-132: the request is valid and has an
\* escalation; the precedent and the action row are appended; an approval
\* then reads the publish file
ReviewCheck(h, work_order_id, action) ==
    /\ reviews.at[h] = "idle"
    /\ reviews.requests < MaxReviews
    /\ Len(memory.rows) < MaxPrecedents
    /\ memory' = [rows |-> Append(memory.rows,
                                  [key |-> "example.com|support|A",
                                   decision |-> _decision_for_action(action)]),
                  match |-> NoMatch]
    /\ reviews' =
         IF action \in {"approve", "edit_approve"} /\ ~_publish_exists(work_order_id)
         THEN [reviews EXCEPT !.requests = @ + 1,
                              !.at[h] = "checked",
                              !.work_order_id[h] = work_order_id]
         ELSE [reviews EXCEPT !.requests = @ + 1]
    /\ UNCHANGED <<qvars, publish_queue, dvars, pvars, log, ingest, sender, kept>>

\* apply_review_action, lines 133-145: _build_publish_payload gives None
\* without a tone row; otherwise the payload is appended to PUBLISH_PATH
ReviewWrite(h) ==
    /\ reviews.at[h] = "checked"
    /\ \E tone \in BOOLEAN :
        reviews' = [reviews EXCEPT
                      !.publish = IF tone THEN Append(@, reviews.work_order_id[h])
                                  ELSE @,
                      !.at[h] = "idle",
                      !.work_order_id[h] = ""]
    /\ UNCHANGED <<qvars, publish_queue, dvars, pvars, log, ingest, memory, sender, kept>>

ReviewNext ==
    \/ \E h \in Handlers, work_order_id \in Escalated, action \in ALLOWED_ACTIONS :
          ReviewCheck(h, work_order_id, action)
    \/ \E h \in Handlers : ReviewWrite(h)

ReviewSpec == Init /\ [][ReviewNext]_vars

\* C28: after any sequence of review actions for one work order, two
\* approvals handled at the same time by the threaded server included, at most
\* one publish row exists for that work order.
C28_OnePublishRowPerReview ==
    \A work_order_id \in Escalated :
        Cardinality({k \in 1..Len(reviews.publish) :
                        reviews.publish[k] = work_order_id}) <= 1

----------------------------------------------------------------------------
(* a tier-A work order through the whole pipeline *)

\* _build_template_draft: "confidence": 0.8
TemplateConfidence == 80

\* classify_text(subject + " " + sender): a tier-C keyword or pattern first,
\* then a tier-A keyword, else B
classify_text(tier_c_trigger, tier_a_keyword) ==
    IF tier_c_trigger THEN "C"
    ELSE IF tier_a_keyword THEN "A"
    ELSE "B"

\* pipeline_daemon.process_work_order without OPENAI_API_KEY: the agents in
\* turn over the files of the pipeline directory
process_work_order(tier_c_trigger, tier_a_keyword, precedent, auto_send) ==
    LET policy_tier == classify_text(tier_c_trigger, tier_a_keyword)
        confidence == _clean_confidence(TemplateConfidence)
        fact_status == fact_agent(policy_tier)
        qa_pass == qa_agent(confidence, TRUE)
        needs_human_review ==
            policy_agent(policy_tier, fact_status, qa_pass, confidence, precedent)
    IN [policy_tier |-> policy_tier,
        draft_agent |-> "template_fallback",
        confidence |-> confidence,
        qa_pass |-> qa_pass,
        needs_human_review |-> needs_human_review,
        publish |-> publish_agent("wo1", needs_human_review, auto_send)]

\* a run of a tier-A work order with the fallback draft, no precedent, the
\* default minimum confidence and the default stages
TierARun(e) ==
    /\ e.tier = classify_text(FALSE, TRUE)
    /\ e.confidence = TemplateConfidence
    /\ ~e.precedent.found
    /\ e.min_confidence = DRAFT_MIN_CONFIDENCE

\* how such a run ends: returned, completed, QA and policy without review,
\* one publish payload
EndsCompleted ==
    /\ exec'.at = "returned"
    /\ exec'.status = "completed"
    /\ ~exec'.qa_review
    /\ ~exec'.policy_review
    /\ "publish" \in exec.state
    /\ Len(exec.payloads) = 1

\* the step at which run_work_order ends
RunEnds == exec.at \in {"qa", "finish"} /\ exec'.at \in {"returned", "raised"}

\* C30: a tier-A work order, run through the full pipeline with no drafting
\* collaborator and no stored precedent, yields tier A, the fallback template
\* draft with confidence 0.8, QA pass, needs_human_review = false, final
\* status completed and exactly one publish artifact.
C30_TierAEndToEnd ==
    [][(RunEnds /\ TierARun(exec) /\ ~exec.qa_accepts_work_order)
          => EndsCompleted]_vars

\* the same with a QA stage whose qa_agent accepts work_order=
C30_WithReturningQA ==
    [][(RunEnds /\ TierARun(exec) /\ exec.qa_accepts_work_order)
          => EndsCompleted]_vars

\* the same for process_work_order, which has no run status
C30_ProcessWorkOrder ==
    \A a \in BOOLEAN :
        LET out == process_work_order(FALSE, TRUE, [found |-> FALSE, decision |-> "unknown"], a)
        IN /\ out.policy_tier = "A"
           /\ out.confidence = 80
           /\ out.qa_pass
           /\ ~out.needs_human_review
           /\ Len(out.publish) = 1

----------------------------------------------------------------------------
(* mark_retry and the backoff *)

\* the step at which a worker's mark_retry writes the row
RetryWrites(w) ==
    /\ pc[w] \in {"failed", "retry_read"}
    /\ pc'[w] = "idle"
    /\ MarkRetryWrite(w) \/ MarkRetryMem(w)

\* the job goes back to queued, claimable after the backoff of its attempt
BackoffApplied(w) ==
    LET i == held[w].job_id
        k == jobs[i].attempt
    IN k < MaxAttempts
         => /\ jobs'[i].status = "queued"
            /\ jobs'[i].available_at = now + _next_backoff(k)

\* the ladder: 30 s, 120 s, then 600 s, never decreasing
BackoffLadder ==
    /\ _next_backoff(1) = 30
    /\ _next_backoff(2) = 120
    /\ \A k \in 3..6 : _next_backoff(k) = 600
    /\ \A k \in 1..6 : _next_backoff(k) <= _next_backoff(k + 1)

\* C31: mark_retry on a job whose attempt k is below max_attempts sets
\* available_at to now + backoff(k), with backoff 30 s, 120 s and 600 s from
\* the third attempt on; the delay never decreases as k grows.
C31_BackoffOnRetry ==
    [][BackoffLadder /\ \A w \in Workers : RetryWrites(w) => BackoffApplied(w)]_vars

\* the same on the Postgres queue alone
C31_PostgresOnly ==
    [][backend = "postgres"
         => (BackoffLadder /\ \A w \in Workers : RetryWrites(w) => BackoffApplied(w))]_vars

----------------------------------------------------------------------------
(* claim_next and available_at *)

\* the backoffs a job has waited through before its claim number attempt,
\* when every earlier attempt ended in mark_retry
RECURSIVE BackoffsBefore(_)
BackoffsBefore(attempt) ==
    IF attempt <= 1 THEN 0
    ELSE BackoffsBefore(attempt - 1) + _next_backoff(attempt - 1)

\* no job was claimed again before the backoff of its last retry had elapsed
ClaimedAfterBackoff ==
    \A i \in JobIds :
        jobs[i].status = "running" => now >= BackoffsBefore(jobs[i].attempt)

\* the step at which worker w's claim_next returns a job
ClaimReturns(w) == pc[w] = "idle" /\ pc'[w] = "claimed"

\* the job returned was queued and due, and no other due job was due
\* earlier, or as early and created before it
EarliestClaimed(w) ==
    LET i == held'[w].job_id
    IN /\ jobs[i].status = "queued"
       /\ jobs[i].available_at <= now
       /\ \A k \in JobIds :
            (k # i /\ jobs[k].status = "queued" /\ jobs[k].available_at <= now)
               => \/ jobs[i].available_at < jobs[k].available_at
                  \/ jobs[i].available_at = jobs[k].available_at /\ i < k

\* C35: claim_next never returns a job before its available_at: after
\* mark_retry requeued a job at attempt k no claim returns it until
\* backoff(k) has elapsed, and among the due jobs claim_next returns the one
\* with the earliest available_at, ties broken by creation time; on the
\* Postgres queue and on the in-memory queue.
C35_ClaimRespectsAvailableAt ==
    /\ []ClaimedAfterBackoff
    /\ [][\A w \in Workers : ClaimReturns(w) => EarliestClaimed(w)]_vars

\* the same on the Postgres queue alone
C35_PostgresOnly ==
    /\ [](backend = "postgres" => ClaimedAfterBackoff)
    /\ [][backend = "postgres"
            => \A w \in Workers : ClaimReturns(w) => EarliestClaimed(w)]_vars

----------------------------------------------------------------------------
(* terminal job states *)

\* a job that is done or dead_letter keeps its status in this step
TerminalKept ==
    \A i \in JobIds :
        jobs[i].status \in {"done", "dead_letter"}
            => jobs'[i].status = jobs[i].status

\* C34: done and dead_letter are absorbing: once a job is done or
\* dead_letter no later enqueue, claim_next, mark_done, mark_retry,
\* mark_dead_letter or recover_stale_running of any worker or of the reaper
\* changes its status.
C34_TerminalAbsorbing == [][TerminalKept]_vars

----------------------------------------------------------------------------
(* publish_sender: draft_publish_payloads.jsonl is forwarded to the webhook *)
(* row by row; publish_sender_state.json keeps the ids already sent.        *)

MaxPayloads == 3
PayloadIds == {"wo1", "wo2", ""}
\* the row's "send": pipeline_daemon writes AUTO_SEND_ENABLED, other writers
\* leave the key out
PayloadSends == {"True", "False", "absent"}
\* send_payload: no WEBHOOK_URL, or the POST answered ok or not
SendOutcomes == {"ok", "failed"}

\* a writer appends one row to the publish file
PayloadWritten(work_order_id, send) ==
    /\ Len(sender.file) < MaxPayloads
    /\ sender' = [sender EXCEPT
                    !.file = Append(@, [work_order_id |-> work_order_id, send |-> send])]
    /\ UNCHANGED <<qvars, publish_queue, dvars, pvars, log, ingest, reviews, memory, kept>>

\* send_payload(payload): False without a call when WEBHOOK_URL is unset,
\* otherwise one POST and resp.ok
send_payload(st, row, outcome) ==
    IF outcome = "no_url" THEN st
    ELSE IF outcome = "ok"
         THEN [sent_ids |-> st.sent_ids \cup {row.work_order_id},
               calls |-> st.calls \cup {row},
               count |-> st.count + 1]
         ELSE [st EXCEPT !.calls = @ \cup {row}]

\* the loop of process_once over the rows from k on
RECURSIVE SendRows(_, _, _, _)
SendRows(rows, k, outcomes, st) ==
    IF k > Len(rows) THEN st
    ELSE LET row == rows[k]
         IN  IF row.work_order_id = "" \/ row.work_order_id \in st.sent_ids
             THEN SendRows(rows, k + 1, outcomes, st)
             ELSE SendRows(rows, k + 1, outcomes, send_payload(st, row, outcomes[k]))

\* process_once of publish_sender: _load_state, the loop, _save_state
PublishSenderPass(outcomes) ==
    LET st == SendRows(sender.file, 1, outcomes,
                       [sent_ids |-> sender.sent_ids, calls |-> sender.calls, count |-> 0])
    IN  /\ sender' = [file |-> sender.file, sent_ids |-> st.sent_ids,
                      calls |-> st.calls, count |-> st.count]
        /\ UNCHANGED <<qvars, publish_queue, dvars, pvars, log, ingest, reviews, memory, kept>>

SenderNext ==
    \/ \E work_order_id \in PayloadIds, send \in PayloadSends :
         PayloadWritten(work_order_id, send)
    \/ \E outcomes \in [1..Len(sender.file) -> SendOutcomes] : PublishSenderPass(outcomes)
    \/ PublishSenderPass([k \in 1..Len(sender.file) |-> "no_url"])

SenderSpec == Init /\ [][SenderNext]_vars

\* C32: the file-based publish sender never forwards a payload whose send flag
\* is false to the webhook: a pass of process_once makes no webhook call for
\* such a row, does not count it, and leaves its work_order_id in sent_ids.
SendFalseRows == {k \in 1..Len(sender.file) : sender.file[k].send = "False"}

NeverForwarded == \A row \in sender.calls : row.send # "False"

SendFalseRecorded ==
    sender' # sender /\ sender'.file = sender.file
        => \A k \in SendFalseRows :
             sender.file[k].work_order_id # ""
                 => sender.file[k].work_order_id \in sender'.sent_ids

C32_SendFalseNeverForwarded == []NeverForwarded /\ [][SendFalseRecorded]_vars

----------------------------------------------------------------------------
(* run_work_order and the work order's id *)

\* work_order.get("id", "") as the caller passed it: the key missing, an
\* empty string, blanks only, or an id
RawIds == {"missing", "''", "'  '", "'wo1'"}

\* str(work_order.get("id", "")) without the strip
work_order_id_unstripped(raw) ==
    IF raw = "'wo1'" THEN "wo1" ELSE IF raw = "'  '" THEN "  " ELSE ""

\* work_order_id = str(work_order.get("id", "")).strip()
work_order_id(raw) ==
    IF raw = "'wo1'" THEN "wo1" ELSE ""

\* raise ValueError("work_order.id is required")
IdRequired(path, raw) ==
    /\ Ended
    /\ exec' = [at |-> "rejected", path |-> path, raw |-> raw,
                run_id |-> IF exec.at = "idle" THEN 0 ELSE exec.run_id]
    /\ UNCHANGED <<qvars, publish_queue, dvars, runs, events, agent, xvars>>

\* run_work_order of DurableOrchestrator and of SwarmSupervisor, to the
\* first stage
run_work_order(path, raw) ==
    IF work_order_id(raw) = "" THEN IdRequired(path, raw)
    ELSE StartRunOf(path, work_order_id(raw))

RunNext ==
    \/ \E path \in Paths, raw \in RawIds : run_work_order(path, raw)
    \/ \E k \in 1..Len(Stages) : OrchStage(Stages[k])
    \/ \E k \in 1..Len(Stages) : SupNode(Stages[k])
    \/ QARaises
    \/ SupPersist
    \/ Finish

RunSpec == Init /\ [][RunNext]_vars

\* C33: run_work_order called with a work order whose id is missing or blank
\* fails with a ValueError before touching the store: no run is created, no
\* event is appended and no artifact is persisted, on the orchestrator and on
\* the supervisor alike; no stored run or publish row has a blank id.
BlankIds == {"", "  "}

NothingStoredForBlank ==
    /\ \A k \in 1..Len(runs) : runs[k].work_order_id \notin BlankIds
    /\ \A k \in 1..Len(publish_queue) : publish_queue[k].work_order_id \notin BlankIds
    /\ exec.at \notin {"idle", "rejected"} => exec.wo \notin BlankIds

BlankCall == \E path \in Paths, raw \in RawIds \ {"'wo1'"} :
    <<run_work_order(path, raw)>>_vars

RejectedUntouched ==
    BlankCall => /\ exec'.at = "rejected"
                 /\ UNCHANGED <<runs, events, publish_queue>>

C33_BlankIdRejected == []NothingStoredForBlank /\ [][RejectedUntouched]_vars

\* a blank id was rejected on the supervisor after a run had been stored
C33_Witness ==
    /\ exec.at = "rejected"
    /\ exec.path = "supervisor"
    /\ exec.raw = "'  '"
    /\ Len(runs) = 1

----------------------------------------------------------------------------
\* C37: when a work order that already has a stored run is executed again to
\* completion, the stored run of that work_order_id ends with the new
\* execution's final status and a current_stage other than start, and the
\* run_id that start_run returned is the run_id of the stored record.
ExecutedAgain == exec.at = "returned" /\ exec.run_id > 1

StoredAsReturned ==
    \E k \in 1..Len(runs) :
        /\ runs[k].work_order_id = exec.wo
        /\ runs[k].run_id = exec.run_id
        /\ runs[k].status = exec.status
        /\ runs[k].current_stage # "start"

C37_RerunUpdatesStoredRun == ExecutedAgain => StoredAsReturned

\* InMemoryRunStore keeps a record under the new run_id
C37_MemoryOnly == backend = "memory" /\ ExecutedAgain => StoredAsReturned

----------------------------------------------------------------------------
\* C40: with all workers and the reaper using the same max_attempts, each
\* job's attempt counter is between 0 and max_attempts in every reachable
\* queue state: a job goes back to queued only while attempt < max_attempts,
\* so claim_next never raises attempt above max_attempts.
C40_AttemptBounded ==
    \A i \in JobIds : jobs[i].attempt >= 0 /\ jobs[i].attempt <= MaxAttempts

\* InMemorySwarmQueue.mark_retry reads job.attempt as it writes
C40_MemoryOnly ==
    backend = "memory" => \A i \in JobIds : jobs[i].attempt <= MaxAttempts

----------------------------------------------------------------------------
\* every dispatcher keeps calling process_once, a restarted one included
DispatchFairness == \A d \in Dispatchers : WF_vars(DispatchStep(d))

DispatchLiveSpec == DispatchInit /\ [][DispatchNext]_vars /\ DispatchFairness

DispatchSettled(r) ==
    r \in RowIds /\ publish_queue[r].dispatch_status \in {"dispatched", "dead_letter"}

\* C38: every publish-queue row eventually reaches dispatched or dead_letter,
\* provided some dispatcher keeps calling process_once; this includes a row
\* whose dispatcher crashed after claim_next set it to running and before
\* mark_dispatched or mark_retry_or_dead_letter ran.
C38_EveryRowSettles ==
    \A r \in 1..MaxPublish : (r \in RowIds) ~> DispatchSettled(r)

\* without a crash every claimed row is marked by the dispatcher that holds it
HeldOrSettled ==
    \A r \in RowIds :
        publish_queue[r].dispatch_status = "running"
            => \E d \in Dispatchers : dpc[d] # "idle" /\ drow[d].row_id = r

C38_RunningRowAbandonedOnlyByCrash ==
    [][HeldOrSettled /\ ~(\E d \in Dispatchers : DispatchCrash(d)) => HeldOrSettled']_vars

----------------------------------------------------------------------------
(* One work order run by DurableOrchestrator with the default stages and  *)
(* then by SwarmSupervisor, on the same store; the caller                 *)
(* keeps what the first call returned and left in the store.              *)

\* the stage events of a run: stage and needs_human_review
StageEventsOf(run_id) ==
    {[stage |-> events[k].stage, needs_human_review |-> events[k].needs_human_review] :
        k \in {n \in 1..Len(events) : events[n].run_id = run_id}}

\* the "send" of the publish artifacts persisted from row n on
ArtifactsFrom(n) ==
    [k \in 1..(Len(publish_queue) - n) |-> publish_queue[n + k].send]

\* what the caller gets: the returned dict, or the TypeError of QAStage
ReturnedDict(e) ==
    IF e.at = "returned"
    THEN [status |-> e.status, current_stage |-> e.current_stage, publish |-> e.publish]
    ELSE [status |-> "TypeError", current_stage |-> "TypeError", publish |-> "TypeError"]

\* the caller keeps what the orchestrator returned, and what the run left
KeepReturned ==
    /\ exec.at \in {"returned", "raised"}
    /\ exec.path = "orchestrator"
    /\ kept = NoKept
    /\ kept' = [at |-> "kept", run_id |-> exec.run_id,
                returned |-> ReturnedDict(exec),
                work_order |-> exec.work_order,
                stage_events |-> StageEventsOf(exec.run_id),
                artifacts |-> ArtifactsFrom(0)]
    /\ UNCHANGED <<qvars, publish_queue, dvars, pvars, log, ingest, reviews, memory, sender>>

\* the same work order goes to SwarmSupervisor.run_work_order
RunSame ==
    /\ kept # NoKept
    /\ exec.at \in {"returned", "raised"}
    /\ exec.path = "orchestrator"
    /\ StartRunOf("supervisor", exec.wo)
    /\ WorkOrderOf(exec') = kept.work_order

\* the caller drops both results and both runs
DropReturned ==
    /\ kept # NoKept
    /\ exec.at \in {"returned", "raised"}
    /\ exec.path = "supervisor"
    /\ kept' = NoKept
    /\ exec' = NoExec
    /\ runs' = <<>>
    /\ events' = <<>>
    /\ publish_queue' = <<>>
    /\ delivered' = <<>>
    /\ posted' = <<>>
    /\ UNCHANGED <<qvars, dpc, drow, auto_send_enabled, agent,
                   log, ingest, reviews, memory, sender>>

BothNext ==
    \/ exec.at = "idle" /\ StartRun("orchestrator")
    \/ \E k \in 1..Len(Stages) : OrchStage(Stages[k])
    \/ \E k \in 1..Len(Stages) : SupNode(Stages[k])
    \/ QARaises
    \/ SupPersist
    \/ Finish
    \/ KeepReturned
    \/ RunSame
    \/ DropReturned

BothSpec == Init /\ [][BothNext]_vars

BothEnded ==
    kept # NoKept /\ exec.at \in {"returned", "raised"} /\ exec.path = "supervisor"

SameReturn == ReturnedDict(exec) = kept.returned

SameStored ==
    /\ StageEventsOf(exec.run_id) = kept.stage_events
    /\ ArtifactsFrom(Len(kept.artifacts)) = kept.artifacts

\* C39: for every work order, DurableOrchestrator.run_work_order with the
\* default stages and SwarmSupervisor.run_work_order return the same status,
\* current_stage and publish value and leave the same stage events and
\* artifacts in the store, a work order held by Policy for human review
\* included.
C39_OrchestratorAndSupervisorAgree == BothEnded => SameReturn /\ SameStored

\* with the QAStage of the default stage list both calls end in its TypeError
C39_DefaultStagesBothRaise ==
    BothEnded /\ ~kept.work_order.qa_accepts_work_order
        => exec.at = "raised" /\ SameReturn

\* with a QA stage that returns, a work order neither QA nor Policy holds
\* gets the same dict from both
C39_SameReturnUnlessHeld ==
    BothEnded /\ kept.returned.status = "completed" => SameReturn

\* and the same artifacts
C39_SameArtifactsUnlessHeld ==
    BothEnded /\ kept.returned.status = "completed"
        => ArtifactsFrom(Len(kept.artifacts)) = kept.artifacts

----------------------------------------------------------------------------
(* A writer whose line reaches the log in two writes, and the ingestor *)

\* the first write of a record: the line without its end and its newline
LogAppendBegin(kind) ==
    /\ ~Writing
    /\ Len(log.rows) < MaxLog
    /\ log.next <= MaxRecords
    /\ log' = [log EXCEPT !.rows = Append(@, [NewRow(kind) EXCEPT !.part = "head"]),
                          !.mtime = @ + 1]
    /\ UNCHANGED <<qvars, publish_queue, dvars, pvars, ingest, reviews, memory, sender, kept>>

\* the second write: the rest of the line and the newline
LogAppendEnd ==
    /\ Writing
    /\ log' = [log EXCEPT
                 !.rows = Append(@, [@[Len(@)] EXCEPT !.part = "tail"]),
                 !.mtime = @ + 1, !.next = @ + 1]
    /\ UNCHANGED <<qvars, publish_queue, dvars, pvars, ingest, reviews, memory, sender, kept>>

PartialNext ==
    \/ \E kind \in RowKinds : LogAppend(kind)
    \/ \E kind \in RowKinds : LogAppendBegin(kind)
    \/ LogAppendEnd
    \/ IngestStat
    \/ IngestRead
    \/ IngestSave

PartialSpec == Init /\ [][PartialNext]_vars

\* the stored offset is not inside a line
OffsetAtLineEnd ==
    \/ ingest.offset = 0
    \/ ingest.offset > Len(log.rows)
    \/ log.rows[ingest.offset].part # "head"

\* a pass has read the file to its end and nothing was written since
ReadToEnd ==
    /\ ingest.pc = "idle"
    /\ ~Writing
    /\ ingest.offset = Len(log.rows)
    /\ ingest.mtime_ns = log.mtime

\* every well-formed record of the file has a job
AllEnqueued ==
    LET lines == Joined(log.rows)
    IN \A k \in 1..Len(lines) :
         lines[k].kind = "ok"
             => \E i \in JobIds : jobs[i].work_order_id = WorkOrderId(lines[k].n)

\* C36: the ingest pass parses only complete lines: while a writer is in the
\* middle of appending a record the stored offset does not advance past the
\* incomplete line, and the record is enqueued by a later pass once the writer
\* has finished it; no well-formed record is lost to an interleaving of append
\* and ingest.
C36_OnlyCompleteLines == OffsetAtLineEnd /\ (ReadToEnd => AllEnqueued)

\* the second half alone: no record of a file read to its end lacks a job
C36_NoRecordLost == ReadToEnd => AllEnqueued

\* with writers that put every line into the file in one write, nothing is lost
C36_WholeLinesNotLost ==
    (\A k \in 1..Len(log.rows) : log.rows[k].part = "whole") /\ ReadToEnd
        => AllEnqueued

====
